---- MODULE Spec2Model ----
(***************************************************************************)
(* A model of the IntegrationTestFramework / DelegateMQ core:              *)
(*   - the worker-thread message loop (Logger::Process, Thread::Run),      *)
(*   - wire framing of the packet transports (Send / Receive),             *)
(*   - acknowledgment and retry bookkeeping driven by NetworkEngine.       *)
(* Each part has its own specification over the shared variables.          *)
(***************************************************************************)
EXTENDS Integers, Sequences, FiniteSets, TLC

\* ------------------------------------------------------------------------
\* Bounds of the model
\* ------------------------------------------------------------------------
\* work items the producer thread p1 submits
MaxItems == 2
\* timer messages that may wait in the Logger queue at the same time
MaxTimer == 1
\* capacity of the bounded RTOS queue (Thread constructor argument maxQueueSize)
QueueSize == 2

\* ------------------------------------------------------------------------
\* Program constants
\* ------------------------------------------------------------------------
MSG_WRITE == 1
MSG_EXIT_THREAD == 2
MSG_TIMER == 3
MSG_DISPATCH_DELEGATE == 4

VARIABLES
    \* ---- worker thread (Logger / Thread) ----
    impl,         \* which worker implementation runs: "Logger" or "Thread"
    m_queue,      \* the worker's FIFO message queue
    wpc,          \* worker loop position: "wait", "dispatch", "join", "done"
    cur,          \* message the worker holds after popping it
    sent,         \* per source thread: number of items submitted so far
    result,       \* per item: caller-side state of the invocation
    execLog,      \* per source thread: its items the worker executed, in execution order
    m_thread,     \* Logger::m_thread / Thread::m_queue is non-null
    exitPc,       \* caller of ExitThread: "idle", "joining", "blocked", "done"
    sentAtExit,   \* history: value of sent when the exit message was enqueued
    m_timerExit,  \* Logger::m_timerExit
    tpc,          \* Logger timer thread position: "check", "sleep", "exit"
    \* ---- transports, transport monitor, NetworkEngine ----
    transport,    \* transport class in use: "Serial", "Stm32" or "Netconn"
    hasMonitor,   \* m_transportMonitor of the transport is set
    m_pending,    \* TransportMonitor: records of sends awaiting an ACK
    m_retryStore, \* reliable transport: frames remembered for retransmission
    seqNum,       \* next sequence number the Dispatcher hands out
    dispatched,   \* number of Dispatch calls made
    peerSent,     \* number of frames the peer has sent
    tx,           \* byte strings this side has written to the wire
    rx,           \* bytes waiting for the next Receive call
    peerFrame,    \* history: the latest frame the peer sent
    lastRecv,     \* history: outcome and effects of the Receive call for peerFrame
    incomingQ,    \* Incoming work items marshaled to the network thread
    invoked,      \* history: endpoint invocations made by Incoming, in order
    stat,         \* history, per dispatched sequence number: resends, status events, ACKs
    \* ---- Dispatcher, NetworkEngine threads ----
    m_transport,  \* Dispatcher::m_transport: "none" or "port"
    dispatchLog,  \* history: one record per Dispatcher::Dispatch call
    m_receiveIdMap, \* NetworkEngine::m_receiveIdMap: id -> endpoint, "null", "absent"
    engLog,       \* history: RegisterEndpoint and Incoming calls, in order
    \* ---- NetworkEngine: application, network and receive thread ----
    appPc,        \* application thread: where it is in its NetworkEngine call
    calls,        \* number of NetworkEngine calls the application has made
    inStop,       \* the application is inside NetworkEngine::Stop
    netQ,         \* work items queued to the network thread (m_thread)
    netPc,        \* network thread: "idle" or "send" (inside the transport's Send)
    recvPc,       \* receive thread (m_recvThread): position in RecvThread
    m_recvThreadExit,
    bRecvThreadCreated,
    exitPosted,   \* MSG_EXIT_THREAD is in the receive thread's queue
    mutexOwner,   \* thread holding the transport's m_mutex, or "none"
    port,         \* "unopened", "open", "closed"
    timerOn,      \* m_timeoutTimer is running
    handoffs,     \* number of frames the receive thread has handed over
    raced,        \* Close released the port while Receive was using it
    accessLog,    \* history: engine state touched, by which function, on which thread
    \* ---- SignalSafe ----
    signalAlive,  \* the signal object exists
    m_delegates,  \* the delegate list; "null": a slot emptied during an emission
    conn,         \* per Connection handle: its delegate and whether it is connected
    scan,         \* slot the running emission invokes next, 0: no emission runs
    emitted,      \* number of emissions started
    firedLog,     \* history: the delegates the current or last emission invoked
    atStart,      \* history: handles connected when that emission started
    sigStuck,     \* the emitting thread waits for a mutex it holds itself
    \* ---- Logger integration tests (Logger_IT.cpp against Logger.cpp) ----
    m_mutex,      \* Logger::m_mutex: "free" or the thread that holds it
    logQueue,     \* Logger::m_queue as the tests see it
    procPc,       \* Logger::Process: position of the Logger thread
    procMsg,      \* the message Logger::Process has popped
    m_pLoggerStatusCb, \* Logger::m_pLoggerStatusCb is set
    callbackStatus, \* Logger_IT.cpp: statuses LoggerStatusCb has stored
    m_signaled,   \* SignalThread: SetSignal was called and not yet consumed
    testPc,       \* IntegrationTest thread: index of its next step in TestProgram
    waits,        \* results of the WaitForSignal calls of the Write test
    m_msgData,    \* LogData::m_msgData
    logDataLog,   \* history: LogData operations and the thread that ran each
    asyncCalls,   \* per blocking AsyncInvoke of the tests: state, runs, values
    ticks,        \* timer messages Logger::TimerThread has pushed
    \* ---- Stm32UartTransport: UartRingBuffer, RX interrupt, receive task ----
    m_head,       \* UartRingBuffer::m_head
    m_tail,       \* UartRingBuffer::m_tail
    m_buffer,     \* UartRingBuffer::m_buffer
    m_rxByte,     \* the byte the UART has stored for the interrupt handler
    m_rxSemaphore, \* binary semaphore: 1 when a token is available
    isrPc,        \* OnRxCplt: "idle", "store", "publish", "give"
    rdPc,         \* receive task: "idle", "get", "read", "advance", "take"
    rdOut,        \* the byte Get has copied out of the buffer
    arrived,      \* number of bytes the UART has received
    accepted,     \* history: bytes for which Put returned true, in order
    got,          \* history: bytes for which Get returned true, in order
    dropped,      \* history: bytes for which Put returned false
    \* ---- FreeRTOSConditionVariable / ThreadXConditionVariable ----
    cvKind,       \* which class: "FreeRTOS" (binary) or "ThreadX" (counting semaphore)
    m_sem,        \* tokens the semaphore holds
    cvLock,       \* the mutex the waiters pass to wait: "free" or its holder
    pred,         \* per waiter: its predicate is true
    wPc,          \* per waiter: "idle", "pred", "take", "lock", "lockTimeout", "returned"
    wMode,        \* per waiter: it calls "wait" or "wait_for"
    wRet,         \* per waiter: what its call returned
    nPc,          \* per waiter, the thread that notifies it: "set", "notify", "done"
    \* ---- a second NetworkEngine of the process; CreateThread on one Thread ----
    recv2Pc,      \* second engine: "unstarted", "none" (started, no loop), "loop"
    ctKind,       \* class of the thread object: "FreeRTOS", "ThreadX", "Logger"
    ctCalls,      \* CreateThread calls made on the object
    ctTasks,      \* workers CreateThread has created on the object
    ctQueue,      \* the object's queue: items not yet received
    ctRan         \* history: per executed item, the worker that executed it

workerVars == <<impl, m_queue, wpc, cur, sent, result, execLog, m_thread,
                exitPc, sentAtExit, m_timerExit, tpc>>

netVars == <<transport, hasMonitor, m_pending, m_retryStore, seqNum, dispatched,
             peerSent, tx, rx, peerFrame, lastRecv, incomingQ, invoked, stat>>

thrVars == <<appPc, calls, inStop, netQ, netPc, recvPc, m_recvThreadExit,
             bRecvThreadCreated, exitPosted, mutexOwner, port, timerOn, handoffs,
             raced, accessLog>>
sigVars == <<signalAlive, m_delegates, conn, scan, emitted, firedLog, atStart, sigStuck>>
itVars == <<m_mutex, logQueue, procPc, procMsg, m_pLoggerStatusCb, callbackStatus,
            m_signaled, testPc, waits, m_msgData, logDataLog, asyncCalls, ticks>>
ringVars == <<m_head, m_tail, m_buffer, m_rxByte, m_rxSemaphore, isrPc, rdPc, rdOut,
              arrived, accepted, got, dropped>>
cvVars == <<cvKind, m_sem, cvLock, pred, wPc, wMode, wRet, nPc>>
ctVars == <<recv2Pc, ctKind, ctCalls, ctTasks, ctQueue, ctRan>>
rtosVars == <<ringVars, cvVars, ctVars>>
engVars == <<m_transport, dispatchLog, m_receiveIdMap, engLog, thrVars, sigVars, itVars,
             rtosVars>>

vars == <<workerVars, netVars, engVars>>

\* ========================================================================
\* Worker thread: Logger (std::queue, mutex, condition variable) and the
\* FreeRTOS Thread (bounded xQueue)
\* ========================================================================
Producers == {"p1", "p2"}
Sources == Producers

NoMsg == [id |-> 0, src |-> "none", n |-> 0]
ExitMsg == [id |-> MSG_EXIT_THREAD, src |-> "ExitThread", n |-> 1]

\* Number of items source p may submit within the bounds of the model: p1 is
\* the source thread under observation, p2 a second producer whose single
\* item can land anywhere between those of p1.
Quota(p) == IF p = "p1" THEN MaxItems ELSE 1

Item(msg) == <<msg.src, msg.n>>
Items == Sources \X (1..MaxItems)
TimerMsg == [id |-> MSG_TIMER, src |-> "TimerThread", n |-> 0]
TimersQueued == Cardinality({i \in 1..Len(m_queue) : m_queue[i] = TimerMsg})

\* The items of source s that were put into the queue.
\* An item that Thread::DispatchDelegate could not enqueue: the caller was a
\* fire-and-forget one ("dropped"), or a blocking one that went on to wait for
\* the completion signal ("droppedWaiting") until its wait time elapsed
\* ("droppedTimedout").
DroppedStates == {"dropped", "droppedWaiting", "droppedTimedout"}

Enqueued(s) == {k \in 1..sent[s] : result[<<s, k>>] \notin DroppedStates}

Executed(s, k) == \E i \in 1..Len(execLog[s]) : execLog[s][i] = k
ExecCount(s, k) == Cardinality({i \in 1..Len(execLog[s]) : execLog[s][i] = k})
InQueue(s, k) == \E i \in 1..Len(m_queue) : Item(m_queue[i]) = <<s, k>>

\* A caller blocked in a blocking-with-timeout invocation submits nothing.
CallerFree(p) == \A k \in 1..sent[p] : result[<<p, k>>] \notin {"waiting", "droppedWaiting"}

WorkerInit ==
    /\ impl \in {"Logger", "Thread"}
    /\ m_queue = <<>>
    /\ wpc = "wait"
    /\ cur = NoMsg
    /\ sent = [s \in Sources |-> 0]
    /\ result = [i \in Items |-> "none"]
    /\ execLog = [s \in Sources |-> <<>>]
    /\ m_thread = TRUE
    /\ exitPc = "idle"
    /\ sentAtExit = [s \in Sources |-> 0]
    /\ m_timerExit = FALSE
    /\ tpc = IF impl = "Logger" THEN "check" ELSE "exit"

\* Logger::Write: push a MSG_WRITE message and notify the worker.
Logger_Write(p) ==
    /\ impl = "Logger"
    /\ m_thread
    /\ sent[p] < Quota(p)
    /\ CallerFree(p)
    /\ m_queue' = Append(m_queue, [id |-> MSG_WRITE, src |-> p, n |-> sent[p] + 1])
    /\ sent' = [sent EXCEPT ![p] = @ + 1]
    /\ result' = [result EXCEPT ![<<p, sent[p] + 1>>] = "queued"]
    /\ UNCHANGED <<impl, wpc, cur, execLog, m_thread, exitPc, sentAtExit, m_timerExit, tpc>>
    /\ UNCHANGED <<netVars, engVars>>

\* Logger::DispatchDelegate: push a MSG_DISPATCH_DELEGATE message.  The caller
\* either returns at once (fire-and-forget) or waits for completion with a
\* timeout (w = TRUE).
Logger_DispatchDelegate(p, w) ==
    /\ impl = "Logger"
    /\ m_thread
    /\ sent[p] < Quota(p)
    /\ CallerFree(p)
    /\ m_queue' = Append(m_queue, [id |-> MSG_DISPATCH_DELEGATE, src |-> p, n |-> sent[p] + 1])
    /\ sent' = [sent EXCEPT ![p] = @ + 1]
    /\ result' = [result EXCEPT ![<<p, sent[p] + 1>>] = IF w THEN "waiting" ELSE "queued"]
    /\ UNCHANGED <<impl, wpc, cur, execLog, m_thread, exitPc, sentAtExit, m_timerExit, tpc>>
    /\ UNCHANGED <<netVars, engVars>>

\* What the caller of an invocation is left with when the message could not
\* be enqueued: Thread::DispatchDelegate returns void, so a fire-and-forget
\* caller returns as after a successful call and a blocking caller waits.
DispatchDelegate_QueueFull(w) == IF w THEN "droppedWaiting" ELSE "dropped"

\* Thread::DispatchDelegate (FreeRTOS): xQueueSend with a 10 ms wait; when the
\* queue stays full the message is deleted and never enqueued.
Thread_DispatchDelegate(p, w) ==
    /\ impl = "Thread"
    /\ m_thread
    /\ sent[p] < Quota(p)
    /\ CallerFree(p)
    /\ sent' = [sent EXCEPT ![p] = @ + 1]
    /\ IF Len(m_queue) < QueueSize
       THEN /\ m_queue' = Append(m_queue, [id |-> MSG_DISPATCH_DELEGATE, src |-> p, n |-> sent[p] + 1])
            /\ result' = [result EXCEPT ![<<p, sent[p] + 1>>] = IF w THEN "waiting" ELSE "queued"]
       ELSE /\ m_queue' = m_queue
            /\ result' = [result EXCEPT ![<<p, sent[p] + 1>>] = DispatchDelegate_QueueFull(w)]
    /\ UNCHANGED <<impl, wpc, cur, execLog, m_thread, exitPc, sentAtExit, m_timerExit, tpc>>
    /\ UNCHANGED <<netVars, engVars>>

\* The caller of a blocking-with-timeout invocation stops waiting: it is told
\* "not completed"; the queue is not touched.
AsyncInvoke_Timeout(p) ==
    /\ \E k \in 1..sent[p] :
          /\ result[<<p, k>>] \in {"waiting", "droppedWaiting"}
          /\ result' = [result EXCEPT ![<<p, k>>] =
                            IF @ = "waiting" THEN "timedout" ELSE "droppedTimedout"]
    /\ UNCHANGED <<impl, m_queue, wpc, cur, sent, execLog, m_thread, exitPc,
                   sentAtExit, m_timerExit, tpc>>
    /\ UNCHANGED <<netVars, engVars>>

\* DelegateInvoke on the destination thread: run the target, then signal the
\* caller if it is still waiting.
DelegateInvoke(res, msg) ==
    [res EXCEPT ![Item(msg)] = IF @ = "waiting" THEN "completed"
                               ELSE IF @ = "timedout" THEN "late" ELSE "done"]

\* Logger::TimerThread: while (!m_timerExit) { sleep; push MSG_TIMER }
Logger_TimerThreadCheck ==
    /\ impl = "Logger"
    /\ tpc = "check"
    /\ tpc' = IF m_timerExit THEN "exit" ELSE "sleep"
    /\ UNCHANGED <<impl, m_queue, wpc, cur, sent, result, execLog, m_thread,
                   exitPc, sentAtExit, m_timerExit>>
    /\ UNCHANGED <<netVars, engVars>>

Logger_TimerThreadPush ==
    /\ impl = "Logger"
    /\ tpc = "sleep"
    /\ m_timerExit \/ TimersQueued < MaxTimer
    /\ m_queue' = Append(m_queue, TimerMsg)
    /\ tpc' = "check"
    /\ UNCHANGED <<impl, wpc, cur, sent, result, execLog, m_thread, exitPc,
                   sentAtExit, m_timerExit>>
    /\ UNCHANGED <<netVars, engVars>>

\* Logger::ExitThread: push MSG_EXIT_THREAD, then join the worker.
Logger_ExitThread ==
    /\ impl = "Logger"
    /\ m_thread
    /\ exitPc = "idle"
    /\ m_queue' = Append(m_queue, ExitMsg)
    /\ sentAtExit' = sent
    /\ exitPc' = "joining"
    /\ UNCHANGED <<impl, wpc, cur, sent, result, execLog, m_thread, m_timerExit, tpc>>
    /\ UNCHANGED <<netVars, engVars>>

Logger_ExitThreadJoin ==
    /\ impl = "Logger"
    /\ exitPc = "joining"
    /\ wpc = "done"
    /\ m_thread' = FALSE
    /\ exitPc' = "done"
    /\ UNCHANGED <<impl, m_queue, wpc, cur, sent, result, execLog, sentAtExit,
                   m_timerExit, tpc>>
    /\ UNCHANGED <<netVars, engVars>>

\* Thread::ExitThread (FreeRTOS): xQueueSend the exit message with a 100 ms
\* wait (deleted when the queue stays full), then take the exit semaphore.
Thread_ExitThread ==
    /\ impl = "Thread"
    /\ m_thread
    /\ exitPc = "idle"
    /\ IF Len(m_queue) < QueueSize
       THEN /\ m_queue' = Append(m_queue, ExitMsg)
            /\ sentAtExit' = sent
            /\ exitPc' = "joining"
       ELSE /\ UNCHANGED <<m_queue, sentAtExit>>
            /\ exitPc' = "blocked"
    /\ UNCHANGED <<impl, wpc, cur, sent, result, execLog, m_thread, m_timerExit, tpc>>
    /\ UNCHANGED <<netVars, engVars>>

Thread_ExitThreadTake ==
    /\ impl = "Thread"
    /\ exitPc \in {"joining", "blocked"}
    /\ wpc = "done"
    /\ m_thread' = FALSE
    /\ m_queue' = <<>>
    /\ exitPc' = "done"
    /\ UNCHANGED <<impl, wpc, cur, sent, result, execLog, sentAtExit, m_timerExit, tpc>>
    /\ UNCHANGED <<netVars, engVars>>

\* Worker loop, first half: wait until the queue is non-empty, pop the front
\* message (Logger::Process under m_mutex; Thread::Run in xQueueReceive).
FrontLifo(q) == q[Len(q)]
Front(q) == Head(q)
Pop(q) == Tail(q)

WorkerPop ==
    /\ wpc = "wait"
    /\ m_queue # <<>>
    /\ cur' = Front(m_queue)
    /\ m_queue' = Pop(m_queue)
    /\ wpc' = "dispatch"
    /\ UNCHANGED <<impl, sent, result, execLog, m_thread, exitPc, sentAtExit,
                   m_timerExit, tpc>>
    /\ UNCHANGED <<netVars, engVars>>

\* Whether handling a message of kind id leaves the loop (the return in the
\* MSG_EXIT_THREAD case).
LoopNeverExits(id) == FALSE
LoopExits(id) == id = MSG_EXIT_THREAD

\* Logger::Process with the MSG_DISPATCH_DELEGATE case missing: the message is
\* consumed and nothing is invoked.
Logger_ProcessNoDelegateCase ==
    /\ impl = "Logger"
    /\ wpc = "dispatch"
    /\ wpc' = IF LoopExits(cur.id) THEN "join" ELSE "wait"
    /\ CASE cur.id = MSG_EXIT_THREAD ->
              /\ m_timerExit' = TRUE
              /\ UNCHANGED <<cur, execLog, result>>
         [] cur.id = MSG_WRITE ->
              /\ execLog' = [execLog EXCEPT ![cur.src] = Append(@, cur.n)]
              /\ result' = [result EXCEPT ![Item(cur)] = "done"]
              /\ cur' = NoMsg
              /\ UNCHANGED m_timerExit
         [] OTHER ->
              /\ cur' = NoMsg
              /\ UNCHANGED <<execLog, result, m_timerExit>>
    /\ UNCHANGED <<impl, m_queue, sent, m_thread, exitPc, sentAtExit, tpc>>
    /\ UNCHANGED <<netVars, engVars>>

\* Logger::Process, the switch on the message id.
Logger_Process ==
    /\ impl = "Logger"
    /\ wpc = "dispatch"
    /\ wpc' = IF LoopExits(cur.id) THEN "join" ELSE "wait"
    /\ CASE cur.id = MSG_EXIT_THREAD ->
              /\ m_timerExit' = TRUE
              /\ UNCHANGED <<cur, execLog, result>>
         [] cur.id = MSG_TIMER ->
              \* m_logData.Flush(): writes the collected lines to disk
              /\ cur' = NoMsg
              /\ UNCHANGED <<execLog, result, m_timerExit>>
         [] OTHER ->
              /\ execLog' = [execLog EXCEPT ![cur.src] = Append(@, cur.n)]
              /\ result' = IF cur.id = MSG_DISPATCH_DELEGATE
                           THEN DelegateInvoke(result, cur)
                           ELSE [result EXCEPT ![Item(cur)] = "done"]
              /\ cur' = NoMsg
              /\ UNCHANGED m_timerExit
    /\ UNCHANGED <<impl, m_queue, sent, m_thread, exitPc, sentAtExit, tpc>>
    /\ UNCHANGED <<netVars, engVars>>

\* Logger::Process on MSG_EXIT_THREAD: timerThread.join(), then return.
Logger_ProcessJoin ==
    /\ impl = "Logger"
    /\ wpc = "join"
    /\ tpc = "exit"
    /\ wpc' = "done"
    /\ UNCHANGED <<impl, m_queue, cur, sent, result, execLog, m_thread, exitPc,
                   sentAtExit, m_timerExit, tpc>>
    /\ UNCHANGED <<netVars, engVars>>

\* Thread::Run, the switch on the message id; the exit case gives the exit
\* semaphore and returns.
Thread_Run ==
    /\ impl = "Thread"
    /\ wpc = "dispatch"
    /\ wpc' = IF LoopExits(cur.id) THEN "done" ELSE "wait"
    /\ IF cur.id = MSG_EXIT_THREAD
       THEN UNCHANGED <<cur, execLog, result>>
       ELSE /\ execLog' = [execLog EXCEPT ![cur.src] = Append(@, cur.n)]
            /\ result' = DelegateInvoke(result, cur)
            /\ cur' = NoMsg
    /\ UNCHANGED <<impl, m_queue, sent, m_thread, exitPc, sentAtExit, m_timerExit, tpc>>
    /\ UNCHANGED <<netVars, engVars>>

\* ========================================================================
\* Wire framing: header, CRC, Send and Receive of the packet transports
\* ========================================================================
\* DmqHeader::MARKER, on the wire as the bytes 0xAA 0x55
MARKER == 43605
\* DmqHeader::HEADER_SIZE
HEADER_SIZE == 8
\* the reserved destination id of acknowledgments
ACK_REMOTE_ID == 0
\* SerialTransport::BUFFER_SIZE
Serial_BUFFER_SIZE == 4096
\* Stm32UartTransport::BUFFER_SIZE
Stm32_BUFFER_SIZE == 512

\* longest payload of the frames the model sends
MaxPayload == 2
\* Dispatch calls made by this side
MaxFrames == 1
\* frames the peer sends
MaxPeer == 1

Transports == {"Serial", "Stm32", "Netconn"}

\* uint16_t in memory of the little-endian hosts the transports run on
Store16(v) == <<v % 256, v \div 256>>
Load16(b0, b1) == b0 + 256 * b1

\* (v << 8) | (v >> 8), truncated to uint16_t
swap16(v) == ((v * 256) % 65536) + (v \div 256)
htons(v) == swap16(v)
ntohs(v) == swap16(v)

\* Bitwise exclusive or: of two bits of weight w, of two 4-bit values (a
\* table), of two bytes.  Here and below a value is bound by a one-element
\* set so that it is computed once however often it is used.
XorBit(a, b, w) == (((a \div w) + (b \div w)) % 2) * w
Xor4 ==
    [a \in 0..15 |-> [b \in 0..15 |->
        XorBit(a, b, 1) + XorBit(a, b, 2) + XorBit(a, b, 4) + XorBit(a, b, 8)]]
Xor(a, b) ==
    CHOOSE r \in {Xor4[x \div 16][y \div 16] * 16 + Xor4[x % 16][y % 16] :
                     x \in {a}, y \in {b}} : TRUE

\* CRC-16 with polynomial 0x1021 (x^16 + x^12 + x^5 + 1), most significant
\* bit first, no reflection, chained through the start value (0xFFFF for a
\* new block).  One byte b enters a CRC c as
\*     x = (c >> 8) ^ b;  x ^= x >> 4;
\*     c = (c << 8) ^ (x << 12) ^ (x << 5) ^ x        (16 bits kept)
\* computed on 4-bit digits: c = c3 c2 c1 c0, x = xh xl.
Crc16Mix(c1, c0, xh, xl) ==
    CHOOSE r \in
        {Xor4[Xor4[a][l]][h \div 8] * 4096
         + Xor4[b][((h * 2) % 16) + (l \div 8)] * 256
         + Xor4[(l * 2) % 16][h] * 16
         + l : a \in {c1}, b \in {c0}, h \in {xh}, l \in {xl}} : TRUE

Crc16Fold(lo, xh, xl) ==
    CHOOSE r \in {Crc16Mix(l \div 16, l % 16, h, Xor4[h][k]) :
                     l \in {lo}, h \in {xh}, k \in {xl}} : TRUE

Crc16Byte(c, b) ==
    CHOOSE r \in
        {Crc16Fold(x % 256, Xor4[x \div 4096][y \div 16], Xor4[(x \div 256) % 16][y % 16]) :
            x \in {c}, y \in {b}} : TRUE

RECURSIVE Crc16CalcBlock(_, _)
Crc16CalcBlock(bytes, crc) ==
    IF bytes = <<>> THEN crc
    ELSE CHOOSE r \in {Crc16CalcBlock(Tail(bs), Crc16Byte(c, Head(bs))) :
                          bs \in {bytes}, c \in {crc}} : TRUE

\* DmqHeader
NewHeader(id, seq) == [marker |-> MARKER, id |-> id, seq |-> seq, len |-> 0]
NoHeader == [marker |-> 0, id |-> 0, seq |-> 0, len |-> 0]
SetLength(h, n) == [h EXCEPT !.len = n % 65536]

\* The acknowledgment Receive builds for an accepted frame.
AckHeader(seq) == NewHeader(ACK_REMOTE_ID, seq)

\* ---- Send ----------------------------------------------------------------
\* The eight header bytes, each field byte-swapped into network order.
HeaderBytes(h) ==
    Store16(swap16(h.marker)) \o Store16(swap16(h.id)) \o
    Store16(swap16(h.seq)) \o Store16(swap16(h.len))

\* SerialTransport::Send: header, payload, then the CRC of both as stored in
\* memory.
Serial_Packet(header, payload) ==
    LET body == HeaderBytes(SetLength(header, Len(payload))) \o payload
    IN  body \o Store16(Crc16CalcBlock(body, 65535))

\* Stm32UartTransport::Send: header, payload, CRC chained over both.
Stm32_Packet(header, payload) ==
    LET hb == HeaderBytes(SetLength(header, Len(payload)))
        c0 == Crc16CalcBlock(hb, 65535)
        crc == IF Len(payload) > 0 THEN Crc16CalcBlock(payload, c0) ELSE c0
    IN  hb \o payload \o Store16(crc)

\* NetconnUdpTransport::Send: header in network order and payload in one
\* datagram.
Netconn_Packet(header, payload) ==
    LET h == SetLength(header, Len(payload))
    IN  Store16(htons(h.marker)) \o Store16(htons(h.id)) \o
        Store16(htons(h.seq)) \o Store16(htons(h.len)) \o payload

SendFailed == [err |-> -1, wire |-> <<>>, add |-> FALSE]

\* Send returns its status (err), what reached the wire, and whether it
\* called m_transportMonitor->Add(seq, id).  open: the port or connection
\* exists; mon: a monitor is set; ok: the physical write succeeds.
Serial_SendAlwaysAdd(header, payload, open, mon, ok) ==
    IF ~open \/ Len(payload) > 65535 THEN SendFailed
    ELSE [err |-> IF ok THEN 0 ELSE -1,
          wire |-> IF ok THEN Serial_Packet(header, payload) ELSE <<>>,
          add |-> mon]

Serial_SendAddOnSuccess(header, payload, open, mon, ok) ==
    IF ~open \/ Len(payload) > 65535 THEN SendFailed
    ELSE [err |-> IF ok THEN 0 ELSE -1,
          wire |-> IF ok THEN Serial_Packet(header, payload) ELSE <<>>,
          add |-> header.id # ACK_REMOTE_ID /\ mon /\ ok]

Serial_Send(header, payload, open, mon, ok) ==
    IF ~open \/ Len(payload) > 65535 THEN SendFailed
    ELSE [err |-> IF ok THEN 0 ELSE -1,
          wire |-> IF ok THEN Serial_Packet(header, payload) ELSE <<>>,
          add |-> header.id # ACK_REMOTE_ID /\ mon]

Stm32_Send(header, payload, open, mon, ok) ==
    IF ~open THEN SendFailed
    ELSE [err |-> IF ok THEN 0 ELSE -1,
          wire |-> IF ok THEN Stm32_Packet(header, payload) ELSE <<>>,
          add |-> header.id # ACK_REMOTE_ID /\ mon]

\* type: "PUB" or "SUB"; a SUB sends nothing but acknowledgments.
Netconn_Send(header, payload, open, mon, ok, type) ==
    IF ~open THEN SendFailed
    ELSE IF type = "SUB" /\ header.id # ACK_REMOTE_ID THEN SendFailed
    ELSE IF Len(payload) > 65535 THEN SendFailed
    ELSE IF ~ok THEN SendFailed
    ELSE [err |-> 0,
          wire |-> Netconn_Packet(header, payload),
          add |-> header.id # ACK_REMOTE_ID /\ mon]

Transport_Send(t, header, payload, mon, ok) ==
    CASE t = "Serial" -> Serial_Send(header, payload, TRUE, mon, ok)
      [] t = "Stm32" -> Stm32_Send(header, payload, TRUE, mon, ok)
      [] t = "Netconn" -> Netconn_Send(header, payload, TRUE, mon, ok, "PUB")

\* ---- Receive -------------------------------------------------------------
\* Outcome of one Receive call on the byte stream s.
\*   returned: FALSE while the call is still blocked waiting for bytes
\*   err, reason: the status returned and the check that produced it
\*   hdr, payload: what the call left in its header and stream arguments
\*   remove: the sequence number passed to m_transportMonitor->Remove (-1: none)
\*   ack: an acknowledgment for hdr.seq is sent through m_sendTransport
\*   crcOk: the CRC field of the frame equals the CRC of its header and payload
\*   used: the bytes of s the call consumed
Rejected(why, h, written, crcOk, n) ==
    [returned |-> TRUE, err |-> -1, reason |-> why, hdr |-> h, payload |-> written,
     remove |-> -1, ack |-> FALSE, crcOk |-> crcOk, used |-> n]

Blocked == [Rejected("blocked", NoHeader, <<>>, TRUE, 0) EXCEPT !.returned = FALSE]

AcceptedNoRemove(h, payload, mon, autoAck, crcOk, n) ==
    [returned |-> TRUE, err |-> 0, reason |-> "ok", hdr |-> h, payload |-> payload,
     remove |-> -1, ack |-> h.id # ACK_REMOTE_ID /\ autoAck, crcOk |-> crcOk, used |-> n]

\* The reliability step at the end of Receive: an acknowledgment removes its
\* pending record, any other frame is acknowledged.
Accepted(h, payload, mon, autoAck, crcOk, n) ==
    [returned |-> TRUE, err |-> 0, reason |-> "ok", hdr |-> h, payload |-> payload,
     remove |-> IF h.id = ACK_REMOTE_ID /\ mon THEN h.seq ELSE -1,
     ack |-> h.id # ACK_REMOTE_ID /\ autoAck, crcOk |-> crcOk, used |-> n]

ParseHeaderNative(hb) ==
    [marker |-> Load16(hb[1], hb[2]), id |-> Load16(hb[3], hb[4]),
     seq |-> Load16(hb[5], hb[6]), len |-> Load16(hb[7], hb[8])]

ParseHeader(hb) ==
    [marker |-> swap16(Load16(hb[1], hb[2])), id |-> swap16(Load16(hb[3], hb[4])),
     seq |-> swap16(Load16(hb[5], hb[6])), len |-> swap16(Load16(hb[7], hb[8]))]

\* The CRC a receiver computes over the header bytes and the payload.
CalcCrc(hb, payload) ==
    LET c0 == Crc16CalcBlock(hb, 65535)
    IN  IF Len(payload) > 0 THEN Crc16CalcBlock(payload, c0) ELSE c0

\* SerialTransport::Receive, the sync loop: index of the byte after the first
\* 0xAA 0x55 found reading from position i, 0 when a read times out first.
RECURSIVE Serial_Sync(_, _)
Serial_Sync(s, i) ==
    IF i > Len(s) THEN 0
    ELSE IF s[i] # 170 THEN Serial_Sync(s, i + 1)
    ELSE IF i + 1 > Len(s) THEN 0
    ELSE IF s[i + 1] = 85 THEN i + 2
    ELSE Serial_Sync(s, i + 2)

\* SerialTransport::Receive after the sync loop; j: next unread byte.  A read
\* that times out has consumed whatever bytes were there.
Serial_ReceiveFrom(s, j, mon, sendT) ==
    IF j + 5 > Len(s) THEN Rejected("timeout", NoHeader, <<>>, TRUE, Len(s))
    ELSE
      LET hb == <<170, 85>> \o SubSeq(s, j, j + 5)
          h == ParseHeader(hb)
          len == h.len
          c == j + 6 + len
      IN  IF h.marker # MARKER THEN Rejected("marker", h, <<>>, TRUE, j + 5)
          ELSE IF len > 0 /\ len > Serial_BUFFER_SIZE THEN Rejected("length", h, <<>>, TRUE, j + 5)
          ELSE IF c - 1 > Len(s) THEN Rejected("timeout", h, <<>>, TRUE, Len(s))
          ELSE
            LET payload == SubSeq(s, j + 6, j + 5 + len)
            IN  IF c + 1 > Len(s) THEN Rejected("timeout", h, payload, TRUE, Len(s))
                ELSE
                  LET receivedCrc == Load16(s[c], s[c + 1])
                      calcCrc == CalcCrc(hb, payload)
                  IN  IF receivedCrc # calcCrc
                      THEN Rejected("crc", h, payload, FALSE, c + 1)
                      ELSE Accepted(h, payload, mon, sendT, TRUE, c + 1)

Serial_Receive(s, mon, sendT) ==
    LET j == Serial_Sync(s, 1)
    IN  IF j = 0 THEN Rejected("sync", NoHeader, <<>>, TRUE, Len(s))
        ELSE Serial_ReceiveFrom(s, j, mon, sendT)

\* Stm32UartTransport::Receive.  Every read blocks until a byte arrives, so
\* the call returns only once the stream holds all the bytes it asks for.
RECURSIVE Stm32_Sync(_, _)
Stm32_Sync(s, i) ==
    IF i > Len(s) THEN 0
    ELSE IF s[i] = MARKER \div 256 THEN i
    ELSE Stm32_Sync(s, i + 1)

Stm32_Receive(s, mon, sendT) ==
    LET i == Stm32_Sync(s, 1)
    IN  IF i = 0 \/ i + 7 > Len(s) THEN Blocked
        ELSE
          LET hb == SubSeq(s, i, i + 7)
              h == ParseHeader(hb)
              len == h.len
              c == i + 8 + len
          IN  IF h.marker # MARKER THEN Rejected("marker", h, <<>>, TRUE, i + 7)
              ELSE IF len > 0 /\ len > Stm32_BUFFER_SIZE THEN Rejected("length", h, <<>>, TRUE, i + 7)
              ELSE IF c + 1 > Len(s) THEN Blocked
              ELSE
                LET payload == SubSeq(s, i + 8, i + 7 + len)
                    receivedCrc == Load16(s[c], s[c + 1])
                IN  Accepted(h, payload, mon, mon /\ sendT,
                             receivedCrc = CalcCrc(hb, payload), c + 1)

\* NetconnUdpTransport::Receive: s is one datagram; it carries no CRC.
Netconn_Receive(s, mon, sendT) ==
    IF Len(s) < HEADER_SIZE THEN Rejected("short", NoHeader, <<>>, TRUE, Len(s))
    ELSE
      LET h == [marker |-> ntohs(Load16(s[1], s[2])), id |-> ntohs(Load16(s[3], s[4])),
                seq |-> ntohs(Load16(s[5], s[6])), len |-> ntohs(Load16(s[7], s[8]))]
      IN  IF h.marker # MARKER THEN Rejected("marker", h, <<>>, TRUE, Len(s))
          ELSE IF Len(s) < HEADER_SIZE + h.len THEN Rejected("length", h, <<>>, TRUE, Len(s))
          ELSE Accepted(h, SubSeq(s, HEADER_SIZE + 1, HEADER_SIZE + h.len),
                        mon, mon /\ sendT, TRUE, Len(s))

Transport_Receive(t, s, mon) ==
    CASE t = "Serial" -> Serial_Receive(s, mon, TRUE)
      [] t = "Stm32" -> Stm32_Receive(s, mon, TRUE)
      [] t = "Netconn" -> Netconn_Receive(s, mon, TRUE)

\* ========================================================================
\* Transport monitor and reliable transport
\* ========================================================================
\* NetworkEngine::RECV_TIMEOUT, the monitor's timeout in milliseconds
RECV_TIMEOUT == 2000
\* period of NetworkEngine's timeout timer in milliseconds
TIMER_PERIOD == 100
\* resends the reliable transport makes before it gives up
MAX_RETRIES == 3

\* TransportMonitor::Add: (re)register seq as sent now.
Monitor_Add(pending, seq, id) ==
    {r \in pending : r.seq # seq} \cup {[seq |-> seq, id |-> id, age |-> 0]}

\* Remove that drops every record of the acknowledged frame's destination
Monitor_RemoveById(pending, seq) ==
    {r \in pending : \A q \in pending : q.seq = seq => r.id # q.id}

\* TransportMonitor::Remove
Monitor_Remove(pending, seq) == {r \in pending : r.seq # seq}

Monitor_Has(pending, seq) == \E r \in pending : r.seq = seq

\* The records one timer period later.  An age past the timeout is not
\* counted further: the record is stale whatever its exact age.
Monitor_Aged(pending) ==
    {[r EXCEPT !.age = IF @ > RECV_TIMEOUT THEN @ ELSE @ + TIMER_PERIOD] : r \in pending}

Monitor_StaleNever(pending) == {}

\* TransportMonitor::Process: the records older than the timeout.
Monitor_Stale(pending) == {r \in pending : r.age > RECV_TIMEOUT}

RetryAlways(retries) == TRUE

\* The reliable transport resends while the budget lasts.
RetryAllowed(retries) == retries < MAX_RETRIES

Stored(store, seq) == CHOOSE e \in store : e.seq = seq
IsStored(store, seq) == \E e \in store : e.seq = seq

NewStat == [retx |-> 0, timeouts |-> 0, fails |-> 0, succ |-> 0, ackAt |-> -1, acks |-> 0]

\* ========================================================================
\* NetworkEngine: dispatch, receive thread, incoming, timeout tick
\* ========================================================================
\* ids of the frames the peer sends: the ACK id, a registered endpoint, an
\* unregistered one
PeerIds == {ACK_REMOTE_ID, 1, 99}
PeerSeqs == {1, 2}
Endpoints == {"A", "B"}

\* m_receiveIdMap[id] = endpoint: the entry is created or overwritten.
Registry_Put(map, id, ep) == [map EXCEPT ![id] = ep]

EngEntry(kind, id, seq, payload, ep, error) ==
    [kind |-> kind, id |-> id, seq |-> seq, payload |-> payload, ep |-> ep,
     error |-> error]

\* The registry of an engine whose application registered endpoint A for id 1.
NoEndpoints == [id \in PeerIds |-> "absent"]
OneEndpoint == Registry_Put(NoEndpoints, 1, "A")

\* Payloads of the frames the peer sends: the marker bytes repeated, the
\* content that is hardest on the receiver's search for a frame start.
Pattern(n) == [i \in 1..n |-> IF i % 2 = 1 THEN 170 ELSE 85]
Payloads == {Pattern(n) : n \in 0..MaxPayload}

NoFrame == [id |-> 0, seq |-> 0, payload |-> <<>>, wire |-> <<>>, corrupted |-> FALSE]
NoRecv ==
    [called |-> FALSE, err |-> 0, reason |-> "none", hdr |-> NoHeader, payload |-> <<>>,
     crcOk |-> TRUE, clean |-> FALSE, ackSent |-> FALSE, pendingChanged |-> FALSE,
     forwarded |-> FALSE, overtook |-> 0]

NetIdle ==
    /\ transport = "Serial"
    /\ hasMonitor = FALSE
    /\ m_pending = {}
    /\ m_retryStore = {}
    /\ seqNum = 1
    /\ dispatched = 0
    /\ peerSent = 0
    /\ tx = <<>>
    /\ rx = <<>>
    /\ peerFrame = NoFrame
    /\ lastRecv = NoRecv
    /\ incomingQ = <<>>
    /\ invoked = <<>>
    /\ stat = <<>>

\* ========================================================================
\* SignalSafe: Connect, Connection release, emission
\* ========================================================================
MaxConn == 3
MaxEmit == 2

Delegates == {"d1", "d2"}
Handles == 1..MaxConn

NoConn == [d |-> "none", st |-> "unused", via |-> "none"]

SigIdle ==
    /\ signalAlive = TRUE
    /\ m_delegates = <<>>
    /\ conn = [h \in Handles |-> NoConn]
    /\ scan = 0
    /\ emitted = 0
    /\ firedLog = <<>>
    /\ atStart = {}
    /\ sigStuck = FALSE

Connected(d) == {h \in Handles : conn[h].st = "connected" /\ conn[h].d = d}

Erase(list, i) == SubSeq(list, 1, i - 1) \o SubSeq(list, i + 1, Len(list))

RemoveErasing(list, d, broadcasting) ==
    LET hits == {i \in 1..Len(list) : list[i] = d}
    IN  IF hits = {} THEN list
        ELSE Erase(list, CHOOSE i \in hits : \A j \in hits : i <= j)

\* MulticastDelegate::Remove: the first delegate equal to d leaves the list;
\* while an emission scans the list its slot is emptied instead and taken
\* out when the emission ends.
Remove(list, d, broadcasting) ==
    LET hits == {i \in 1..Len(list) : list[i] = d}
    IN  IF hits = {} THEN list
        ELSE LET i == CHOOSE k \in hits : \A j \in hits : k <= j
             IN  IF broadcasting THEN [list EXCEPT ![i] = "null"] ELSE Erase(list, i)

Connection_ReleaseNothing(list, d, alive, broadcasting) == list

\* The function Connect stores in the Connection: if the signal still lives
\* (weakSelf.lock()), Remove a copy of the connected delegate.
Connection_Release(list, d, alive, broadcasting) ==
    IF alive THEN Remove(list, d, broadcasting) ELSE list

LockNonRecursive(broadcasting) == ~broadcasting

\* MulticastDelegateSafe locks a recursive mutex: the thread that emits can
\* lock it again inside a callback.
LockRecursive(broadcasting) == TRUE

\* SignalSafe::Connect: PushBack and a Connection for the next free handle.
SignalSafe_Connect(d) ==
    /\ signalAlive
    /\ scan = 0
    /\ \E h \in Handles :
          /\ conn[h].st = "unused"
          /\ \A k \in Handles : conn[k].st = "unused" => h <= k
          /\ conn' = [conn EXCEPT ![h] = [d |-> d, st |-> "connected", via |-> "none"]]
    /\ m_delegates' = Append(m_delegates, d)
    /\ UNCHANGED <<signalAlive, scan, emitted, firedLog, atStart, sigStuck>>
    /\ UNCHANGED <<m_transport, dispatchLog, m_receiveIdMap, engLog, thrVars, itVars, rtosVars, netVars,
                   workerVars>>

\* Connection::Disconnect while no emission runs.
Connection_Disconnect(h) ==
    /\ scan = 0
    /\ conn[h].st = "connected"
    /\ m_delegates' = Connection_Release(m_delegates, conn[h].d, signalAlive, FALSE)
    /\ conn' = [conn EXCEPT ![h].st = "released", ![h].via = "idle"]
    /\ UNCHANGED <<signalAlive, scan, emitted, firedLog, atStart, sigStuck>>
    /\ UNCHANGED <<m_transport, dispatchLog, m_receiveIdMap, engLog, thrVars, itVars, rtosVars, netVars,
                   workerVars>>

\* The last shared_ptr to the signal is dropped.
Signal_Destroy ==
    /\ signalAlive
    /\ scan = 0
    /\ signalAlive' = FALSE
    /\ m_delegates' = <<>>
    /\ UNCHANGED <<conn, scan, emitted, firedLog, atStart, sigStuck>>
    /\ UNCHANGED <<m_transport, dispatchLog, m_receiveIdMap, engLog, thrVars, itVars, rtosVars, netVars,
                   workerVars>>

\* operator(): an emission starts.
Emit_Begin ==
    /\ signalAlive
    /\ scan = 0
    /\ ~sigStuck
    /\ emitted < MaxEmit
    /\ emitted' = emitted + 1
    /\ scan' = 1
    /\ firedLog' = <<>>
    /\ atStart' = {h \in Handles : conn[h].st = "connected"}
    /\ UNCHANGED <<signalAlive, m_delegates, conn, sigStuck>>
    /\ UNCHANGED <<m_transport, dispatchLog, m_receiveIdMap, engLog, thrVars, itVars, rtosVars, netVars,
                   workerVars>>

\* The emission reaches the next slot: an emptied slot is passed over, a
\* delegate is invoked.  r: the handle the callback releases, 0 for none.
Emit_Step(r) ==
    /\ scan \in 1..Len(m_delegates)
    /\ ~sigStuck
    /\ r # 0 => (conn[r].st = "connected" /\ m_delegates[scan] # "null")
    /\ LET e == m_delegates[scan]
           locked == r = 0 \/ LockRecursive(TRUE)
       IN  /\ firedLog' = IF e = "null" THEN firedLog
                          ELSE Append(firedLog, [d |-> e, registered |-> Connected(e) # {}])
           /\ sigStuck' = ~locked
           /\ scan' = IF locked THEN scan + 1 ELSE scan
           /\ m_delegates' = IF r # 0 /\ locked
                             THEN Connection_Release(m_delegates, conn[r].d, signalAlive, TRUE)
                             ELSE m_delegates
           /\ conn' = IF r # 0 /\ locked
                      THEN [conn EXCEPT ![r].st = "released", ![r].via = "callback"]
                      ELSE conn
    /\ UNCHANGED <<signalAlive, emitted, atStart>>
    /\ UNCHANGED <<m_transport, dispatchLog, m_receiveIdMap, engLog, thrVars, itVars, rtosVars, netVars,
                   workerVars>>

\* The emission is through: emptied slots are taken out of the list.
Emit_End ==
    /\ scan > Len(m_delegates)
    /\ scan' = 0
    /\ m_delegates' = SelectSeq(m_delegates, LAMBDA e : e # "null")
    /\ UNCHANGED <<signalAlive, conn, emitted, firedLog, atStart, sigStuck>>
    /\ UNCHANGED <<m_transport, dispatchLog, m_receiveIdMap, engLog, thrVars, itVars, rtosVars, netVars,
                   workerVars>>

\* ========================================================================
\* Logger integration tests: the IntegrationTest thread runs the tests of
\* Logger_IT.cpp against the Logger thread (Logger::Process) and its timer
\* thread (Logger::TimerThread)
\* ========================================================================
\* timer messages the timer thread pushes while the tests run
MaxTicks == 2
\* iterations of the LogData::Write loop of the FlushTime test (10 in the source)
MaxWrites == 1

WriteSuccess == "Write success!"
FlushSuccess == "Flush success!"
FlushFailure == "Flush failure!"

\* The steps of the IntegrationTest thread: TEST(Logger_IT, Write), then
\* TEST(Logger_IT, Flush), then TEST(Logger_IT, FlushTime), then the Logger
\* is destroyed at program exit.  The read of callbackStatus in the checks of
\* the Write test takes two steps, so that a write made meanwhile is seen.
WriteTest ==
    << [op |-> "SetCallback", arg |-> "LoggerStatusCb"],
       [op |-> "Write", arg |-> "LoggerTest, Write"],
       [op |-> "WaitForSignal", arg |-> "500"],
       [op |-> "WaitForSignal", arg |-> "2000"],
       [op |-> "CheckBegin", arg |-> "callbackStatus"],
       [op |-> "CheckEnd", arg |-> "callbackStatus"],
       [op |-> "SetCallback", arg |-> "nullptr"] >>
FlushTest == << [op |-> "AsyncInvoke", arg |-> "Flush"] >>
FlushTimeTest ==
    << [op |-> "AsyncInvoke", arg |-> "clear"] >>
    \o [i \in 1..MaxWrites |-> [op |-> "AsyncInvoke", arg |-> "Write"]]
    \o << [op |-> "AsyncInvoke", arg |-> "Flush"] >>
TestProgram == WriteTest \o FlushTest \o FlushTimeTest \o << [op |-> "ExitThread", arg |-> ""] >>

TestDone == Len(TestProgram) + 1
TestOp == IF testPc \in 1..Len(TestProgram) THEN TestProgram[testPc].op ELSE "done"
AsyncSteps == {i \in 1..Len(TestProgram) : TestProgram[i].op = "AsyncInvoke"}

NoCall == [st |-> "none", runs |-> 0, ret |-> "none", got |-> "none"]
NoProcMsg == [id |-> 0, call |-> 0, status |-> "none"]
LogMsg(id, call) == [id |-> id, call |-> call, status |-> "none"]

ITIdle ==
    /\ m_mutex = "free"
    /\ logQueue = <<>>
    /\ procPc = "wait"
    /\ procMsg = NoProcMsg
    /\ m_pLoggerStatusCb = FALSE
    /\ callbackStatus = <<>>
    /\ m_signaled = FALSE
    /\ testPc = 1
    /\ waits = <<>>
    /\ m_msgData = <<>>
    /\ logDataLog = {}
    /\ asyncCalls = [i \in AsyncSteps |-> NoCall]
    /\ ticks = 0

\* The positions of Logger::Process at which it dispatches a popped message
\* or runs the client's callback.
HandlerPcs == {"switch", "push_back", "SetSignal"}

\* The end of the scope of the unique_lock in Logger::Process: the mutex is
\* released once the front message is popped, before the switch.
Process_KeepLock(owner) == owner
Process_Unlock(owner) == "free"

\* What Logger::Write does to LogData on the calling thread th: nothing, it
\* only queues a MSG_WRITE message.
LoggerWrite_Direct(th) == {[op |-> "Write", via |-> "Logger::Write", thread |-> th]}
LoggerWrite_LogData(th) == {}

\* LogData::Write, LogData::Flush and std::list::clear on m_msgData.
LogData_Write(list, msg) == Append(list, msg)
LogData_Flush(list) == list
LogData_Clear(list) == <<>>

\* Logger::SetCallback.
Test_SetCallback ==
    /\ TestOp = "SetCallback"
    /\ m_pLoggerStatusCb' = (TestProgram[testPc].arg # "nullptr")
    /\ testPc' = testPc + 1
    /\ UNCHANGED <<m_mutex, logQueue, procPc, procMsg, callbackStatus, m_signaled,
                   waits, m_msgData, logDataLog, asyncCalls, ticks>>
    /\ UNCHANGED <<m_transport, dispatchLog, m_receiveIdMap, engLog, thrVars, sigVars, rtosVars,
                   netVars, workerVars>>

\* Logger::Write called by the test: push MSG_WRITE under m_mutex.
Test_Write ==
    /\ TestOp = "Write"
    /\ m_mutex = "free"
    /\ logQueue' = Append(logQueue, LogMsg(MSG_WRITE, 0))
    /\ logDataLog' = logDataLog \cup LoggerWrite_LogData("Test")
    /\ testPc' = testPc + 1
    /\ UNCHANGED <<m_mutex, procPc, procMsg, m_pLoggerStatusCb, callbackStatus,
                   m_signaled, waits, m_msgData, asyncCalls, ticks>>
    /\ UNCHANGED <<m_transport, dispatchLog, m_receiveIdMap, engLog, thrVars, sigVars, rtosVars,
                   netVars, workerVars>>

\* SignalThread::WaitForSignal: returns true and consumes the signal when
\* SetSignal was called, returns false when the wait time elapses first.
Test_WaitForSignal(timedOut) ==
    /\ TestOp = "WaitForSignal"
    /\ timedOut = ~m_signaled
    /\ m_signaled' = FALSE
    /\ waits' = Append(waits, m_signaled)
    /\ testPc' = testPc + 1
    /\ UNCHANGED <<m_mutex, logQueue, procPc, procMsg, m_pLoggerStatusCb,
                   callbackStatus, m_msgData, logDataLog, asyncCalls, ticks>>
    /\ UNCHANGED <<m_transport, dispatchLog, m_receiveIdMap, engLog, thrVars, sigVars, rtosVars,
                   netVars, workerVars>>

\* The checks of the Write test read callbackStatus.size() and its elements.
Test_Check ==
    /\ TestOp \in {"CheckBegin", "CheckEnd"}
    /\ testPc' = testPc + 1
    /\ UNCHANGED <<m_mutex, logQueue, procPc, procMsg, m_pLoggerStatusCb,
                   callbackStatus, m_signaled, waits, m_msgData, logDataLog,
                   asyncCalls, ticks>>
    /\ UNCHANGED <<m_transport, dispatchLog, m_receiveIdMap, engLog, thrVars, sigVars, rtosVars,
                   netVars, workerVars>>

\* A blocking delegate's AsyncInvoke: Logger::DispatchDelegate pushes a
\* MSG_DISPATCH_DELEGATE message, then the caller waits.
Test_AsyncInvoke ==
    /\ TestOp = "AsyncInvoke"
    /\ asyncCalls[testPc].st = "none"
    /\ m_mutex = "free"
    /\ logQueue' = Append(logQueue, LogMsg(MSG_DISPATCH_DELEGATE, testPc))
    /\ asyncCalls' = [asyncCalls EXCEPT ![testPc].st = "waiting"]
    /\ UNCHANGED <<m_mutex, procPc, procMsg, m_pLoggerStatusCb, callbackStatus,
                   m_signaled, testPc, waits, m_msgData, logDataLog, ticks>>
    /\ UNCHANGED <<m_transport, dispatchLog, m_receiveIdMap, engLog, thrVars, sigVars, rtosVars,
                   netVars, workerVars>>

\* What the waiting caller gets: the value the run stored, when the run was
\* signalled before the wait time elapsed.
AsyncInvoke_Result(call) == IF call.st = "completed" THEN call.ret ELSE "empty"

\* AsyncInvoke returns: with the value once the Logger thread has signalled
\* completion, empty once the wait time has elapsed without that.
Test_AsyncReturn(timedOut) ==
    /\ TestOp = "AsyncInvoke"
    /\ asyncCalls[testPc].st = (IF timedOut THEN "waiting" ELSE "completed")
    /\ asyncCalls' = [asyncCalls EXCEPT
                         ![testPc].got = AsyncInvoke_Result(asyncCalls[testPc]),
                         ![testPc].st = IF timedOut THEN "timedout" ELSE "returned"]
    /\ testPc' = testPc + 1
    /\ UNCHANGED <<m_mutex, logQueue, procPc, procMsg, m_pLoggerStatusCb,
                   callbackStatus, m_signaled, waits, m_msgData, logDataLog, ticks>>
    /\ UNCHANGED <<m_transport, dispatchLog, m_receiveIdMap, engLog, thrVars, sigVars, rtosVars,
                   netVars, workerVars>>

\* ~Logger at program exit: ExitThread pushes MSG_EXIT_THREAD and joins.
Test_ExitThread ==
    /\ TestOp = "ExitThread"
    /\ m_mutex = "free"
    /\ logQueue' = Append(logQueue, LogMsg(MSG_EXIT_THREAD, 0))
    /\ testPc' = testPc + 1
    /\ UNCHANGED <<m_mutex, procPc, procMsg, m_pLoggerStatusCb, callbackStatus,
                   m_signaled, waits, m_msgData, logDataLog, asyncCalls, ticks>>
    /\ UNCHANGED <<m_transport, dispatchLog, m_receiveIdMap, engLog, thrVars, sigVars, rtosVars,
                   netVars, workerVars>>

\* Logger::TimerThread after its sleep: take m_mutex ...
TimerThread_Lock ==
    /\ procPc # "exit"
    /\ ticks < MaxTicks
    /\ m_mutex = "free"
    /\ m_mutex' = "Timer"
    /\ UNCHANGED <<logQueue, procPc, procMsg, m_pLoggerStatusCb, callbackStatus,
                   m_signaled, testPc, waits, m_msgData, logDataLog, asyncCalls, ticks>>
    /\ UNCHANGED <<m_transport, dispatchLog, m_receiveIdMap, engLog, thrVars, sigVars, rtosVars,
                   netVars, workerVars>>

\* ... push a MSG_TIMER message and release the mutex.
TimerThread_Push ==
    /\ m_mutex = "Timer"
    /\ logQueue' = Append(logQueue, LogMsg(MSG_TIMER, 0))
    /\ m_mutex' = "free"
    /\ ticks' = ticks + 1
    /\ UNCHANGED <<procPc, procMsg, m_pLoggerStatusCb, callbackStatus, m_signaled,
                   testPc, waits, m_msgData, logDataLog, asyncCalls>>
    /\ UNCHANGED <<m_transport, dispatchLog, m_receiveIdMap, engLog, thrVars, sigVars, rtosVars,
                   netVars, workerVars>>

\* Logger::Process: take m_mutex and wait on m_cv until the queue is not
\* empty (the wait releases the mutex while the queue is empty).
Process_Lock ==
    /\ procPc = "wait"
    /\ m_mutex = "free"
    /\ logQueue # <<>>
    /\ m_mutex' = "Logger"
    /\ procPc' = "locked"
    /\ UNCHANGED <<logQueue, procMsg, m_pLoggerStatusCb, callbackStatus, m_signaled,
                   testPc, waits, m_msgData, logDataLog, asyncCalls, ticks>>
    /\ UNCHANGED <<m_transport, dispatchLog, m_receiveIdMap, engLog, thrVars, sigVars, rtosVars,
                   netVars, workerVars>>

\* Logger::Process: pop the front message; the lock's scope ends.
Process_Pop ==
    /\ procPc = "locked"
    /\ procMsg' = Head(logQueue)
    /\ logQueue' = Tail(logQueue)
    /\ m_mutex' = Process_Unlock(m_mutex)
    /\ procPc' = "switch"
    /\ UNCHANGED <<m_pLoggerStatusCb, callbackStatus, m_signaled, testPc, waits,
                   m_msgData, logDataLog, asyncCalls, ticks>>
    /\ UNCHANGED <<m_transport, dispatchLog, m_receiveIdMap, engLog, thrVars, sigVars, rtosVars,
                   netVars, workerVars>>

\* A DelegateInvoke that signals the caller without running the target
DelegateInvoke_SignalOnly(call, ret) ==
    [call EXCEPT !.st = IF @ = "waiting" THEN "completed" ELSE @]

\* The target of a delegate message runs on the Logger thread; its return
\* value is stored and the caller, if it still waits, is signalled.
DelegateInvoke_Run(call, ret) ==
    [call EXCEPT !.runs = @ + 1, !.ret = ret,
                 !.st = IF @ = "waiting" THEN "completed" ELSE @]

\* Logger::Process, the switch on the message id.  fileOk: LogData::Flush
\* could open the log file.
Process_Switch(fileOk) ==
    /\ procPc = "switch"
    /\ CASE procMsg.id = MSG_WRITE ->
              /\ m_msgData' = LogData_Write(m_msgData, "LoggerTest, Write")
              /\ logDataLog' = logDataLog \cup {[op |-> "Write", via |-> "Logger::Write", thread |-> "Logger"]}
              /\ procMsg' = [procMsg EXCEPT !.status = WriteSuccess]
              /\ procPc' = IF m_pLoggerStatusCb THEN "push_back" ELSE "wait"
              /\ UNCHANGED asyncCalls
         [] procMsg.id = MSG_TIMER ->
              /\ m_msgData' = LogData_Flush(m_msgData)
              /\ logDataLog' = logDataLog \cup {[op |-> "Flush", via |-> "timer", thread |-> "Logger"]}
              /\ procMsg' = [procMsg EXCEPT !.status = IF fileOk THEN FlushSuccess
                                                         ELSE FlushFailure]
              /\ procPc' = IF m_pLoggerStatusCb THEN "push_back" ELSE "wait"
              /\ UNCHANGED asyncCalls
         [] procMsg.id = MSG_DISPATCH_DELEGATE ->
              LET target == TestProgram[procMsg.call].arg
              IN  /\ m_msgData' = CASE target = "Flush" -> LogData_Flush(m_msgData)
                                    [] target = "clear" -> LogData_Clear(m_msgData)
                                    [] OTHER -> LogData_Write(m_msgData, "Flush Timer String")
                  /\ logDataLog' = logDataLog \cup
                                      {[op |-> target, via |-> "delegate", thread |-> "Logger"]}
                  /\ asyncCalls' = [asyncCalls EXCEPT ![procMsg.call] =
                                       DelegateInvoke_Run(@, IF target = "Flush" /\ ~fileOk
                                                             THEN "false" ELSE "true")]
                  /\ procPc' = "wait"
                  /\ UNCHANGED procMsg
         [] OTHER ->
              /\ procPc' = "exit"
              /\ UNCHANGED <<procMsg, m_msgData, logDataLog, asyncCalls>>
    /\ UNCHANGED <<m_mutex, logQueue, m_pLoggerStatusCb, callbackStatus, m_signaled,
                   testPc, waits, ticks>>
    /\ UNCHANGED <<m_transport, dispatchLog, m_receiveIdMap, engLog, thrVars, sigVars, rtosVars,
                   netVars, workerVars>>

\* LoggerStatusCb on the Logger thread: callbackStatus.push_back(status) ...
LoggerStatusCb_PushBack ==
    /\ procPc = "push_back"
    /\ callbackStatus' = Append(callbackStatus, procMsg.status)
    /\ procPc' = "SetSignal"
    /\ UNCHANGED <<m_mutex, logQueue, procMsg, m_pLoggerStatusCb, m_signaled, testPc,
                   waits, m_msgData, logDataLog, asyncCalls, ticks>>
    /\ UNCHANGED <<m_transport, dispatchLog, m_receiveIdMap, engLog, thrVars, sigVars, rtosVars,
                   netVars, workerVars>>

\* ... then signal.SetSignal().
LoggerStatusCb_SetSignal ==
    /\ procPc = "SetSignal"
    /\ m_signaled' = TRUE
    /\ procPc' = "wait"
    /\ UNCHANGED <<m_mutex, logQueue, procMsg, m_pLoggerStatusCb, callbackStatus,
                   testPc, waits, m_msgData, logDataLog, asyncCalls, ticks>>
    /\ UNCHANGED <<m_transport, dispatchLog, m_receiveIdMap, engLog, thrVars, sigVars, rtosVars,
                   netVars, workerVars>>

\* ========================================================================
\* Stm32UartTransport: UartRingBuffer between the RX interrupt (OnRxCplt) and
\* the receive task (ReadByteBlocked).  A step is one access to the shared
\* volatile members m_head, m_tail and m_buffer.
\* ========================================================================
\* UartRingBuffer<Size>: 1024 in Stm32UartTransport, small here
RingSize == 3
\* bytes the UART receives; byte k is the value k
MaxBytes == 4
\* content of a buffer cell that was never written
Unwritten == 0

NotRtos == <<workerVars, netVars, m_transport, dispatchLog, m_receiveIdMap, engLog,
             thrVars, sigVars, itVars>>

NotRing == <<NotRtos, cvVars, ctVars>>

RingIdle ==
    /\ m_head = 0
    /\ m_tail = 0
    /\ m_buffer = [i \in 0..(RingSize - 1) |-> Unwritten]
    /\ m_rxByte = Unwritten
    /\ m_rxSemaphore = 0
    /\ isrPc = "idle"
    /\ rdPc = "idle"
    /\ rdOut = Unwritten
    /\ arrived = 0
    /\ accepted = <<>>
    /\ got = <<>>
    /\ dropped = <<>>

Put_NeverFull(next_head, tail) == FALSE

\* Put: if (next_head == m_tail) return false
Put_Full(next_head, tail) == next_head = tail

Put_NextNoWrap(head) == head + 1

\* Put: next_head = (m_head + 1) % Size
Put_Next(head) == (head + 1) % RingSize

Get_Stay(tail) == tail

\* Get: m_tail = (m_tail + 1) % Size
Get_Next(tail) == (tail + 1) % RingSize

\* Get: if (m_head == m_tail) return false
Get_Empty(head, tail) == head = tail

GiveNothing(sem) == sem

\* xSemaphoreGiveFromISR on a binary semaphore: a token is available
\* afterwards, however many gives came before.
xSemaphoreGiveFromISR(sem) == 1

\* A byte arrives, the HAL stores it in m_rxByte and calls OnRxCplt, which
\* calls m_ringBuffer.Put(m_rxByte) and ignores what Put returns: Put computes
\* next_head and compares it with m_tail.
OnRxCplt_Put ==
    /\ isrPc = "idle"
    /\ arrived < MaxBytes
    /\ arrived' = arrived + 1
    /\ m_rxByte' = arrived + 1
    /\ IF Put_Full(Put_Next(m_head), m_tail)
       THEN /\ dropped' = Append(dropped, arrived + 1)
            /\ isrPc' = "give"
       ELSE /\ dropped' = dropped
            /\ isrPc' = "store"
    /\ UNCHANGED <<m_head, m_tail, m_buffer, m_rxSemaphore, rdPc, rdOut, accepted, got>>
    /\ UNCHANGED NotRing

\* Put: m_buffer[m_head] = data
Put_Store ==
    /\ isrPc = "store"
    /\ m_buffer' = [m_buffer EXCEPT ![m_head] = m_rxByte]
    /\ isrPc' = "publish"
    /\ UNCHANGED <<m_head, m_tail, m_rxByte, m_rxSemaphore, rdPc, rdOut, arrived,
                   accepted, got, dropped>>
    /\ UNCHANGED NotRing

\* Put: m_head = next_head; return true
Put_Publish ==
    /\ isrPc = "publish"
    /\ m_head' = Put_Next(m_head)
    /\ accepted' = Append(accepted, m_rxByte)
    /\ isrPc' = "give"
    /\ UNCHANGED <<m_tail, m_buffer, m_rxByte, m_rxSemaphore, rdPc, rdOut, arrived,
                   got, dropped>>
    /\ UNCHANGED NotRing

\* OnRxCplt: xSemaphoreGiveFromISR(m_rxSemaphore, ...), re-arm, return.
OnRxCplt_Give ==
    /\ isrPc = "give"
    /\ m_rxSemaphore' = xSemaphoreGiveFromISR(m_rxSemaphore)
    /\ isrPc' = "idle"
    /\ UNCHANGED <<m_head, m_tail, m_buffer, m_rxByte, rdPc, rdOut, arrived, accepted,
                   got, dropped>>
    /\ UNCHANGED NotRing

\* Receive calls ReadByteBlocked for its next byte.
ReadByteBlocked_Call ==
    /\ rdPc = "idle"
    /\ rdPc' = "get"
    /\ UNCHANGED <<m_head, m_tail, m_buffer, m_rxByte, m_rxSemaphore, isrPc, rdOut,
                   arrived, accepted, got, dropped>>
    /\ UNCHANGED NotRing

\* Get: the test m_head == m_tail; on an empty buffer Get returns false and
\* ReadByteBlocked goes on to take the semaphore.
Get_Check ==
    /\ rdPc = "get"
    /\ rdPc' = IF Get_Empty(m_head, m_tail) THEN "take" ELSE "read"
    /\ UNCHANGED <<m_head, m_tail, m_buffer, m_rxByte, m_rxSemaphore, isrPc, rdOut,
                   arrived, accepted, got, dropped>>
    /\ UNCHANGED NotRing

\* Get: data = m_buffer[m_tail]
Get_Read ==
    /\ rdPc = "read"
    /\ rdOut' = m_buffer[m_tail]
    /\ rdPc' = "advance"
    /\ UNCHANGED <<m_head, m_tail, m_buffer, m_rxByte, m_rxSemaphore, isrPc, arrived,
                   accepted, got, dropped>>
    /\ UNCHANGED NotRing

\* Get: m_tail = (m_tail + 1) % Size; return true, and ReadByteBlocked
\* returns true with the byte.
Get_Advance ==
    /\ rdPc = "advance"
    /\ m_tail' = Get_Next(m_tail)
    /\ got' = Append(got, rdOut)
    /\ rdPc' = "idle"
    /\ UNCHANGED <<m_head, m_buffer, m_rxByte, m_rxSemaphore, isrPc, rdOut, arrived,
                   accepted, dropped>>
    /\ UNCHANGED NotRing

\* ReadByteBlocked: xSemaphoreTake(m_rxSemaphore, portMAX_DELAY) returns when
\* a token is available, and the loop calls Get again.
ReadByteBlocked_Take ==
    /\ rdPc = "take"
    /\ m_rxSemaphore = 1
    /\ m_rxSemaphore' = 0
    /\ rdPc' = "get"
    /\ UNCHANGED <<m_head, m_tail, m_buffer, m_rxByte, isrPc, rdOut, arrived, accepted,
                   got, dropped>>
    /\ UNCHANGED NotRing

\* ========================================================================
\* FreeRTOSConditionVariable / ThreadXConditionVariable: a semaphore used as a
\* condition variable by waiters that share one mutex.
\* ========================================================================
Waiters == {"w1", "w2"}
CvKinds == {"FreeRTOS", "ThreadX"}

NotCv == <<NotRtos, ringVars, ctVars>>

CvIdle ==
    /\ cvKind = "FreeRTOS"
    /\ m_sem = 0
    /\ cvLock = "free"
    /\ pred = [w \in Waiters |-> FALSE]
    /\ wPc = [w \in Waiters |-> "idle"]
    /\ wMode = [w \in Waiters |-> "wait"]
    /\ wRet = [w \in Waiters |-> "none"]
    /\ nPc = [w \in Waiters |-> "set"]

\* No second engine started, no CreateThread call made.
CtIdle ==
    /\ recv2Pc = "unstarted"
    /\ ctKind = "FreeRTOS"
    /\ ctCalls = 0
    /\ ctTasks = 0
    /\ ctQueue = <<>>
    /\ ctRan = <<>>

RtosIdle == RingIdle /\ CvIdle /\ CtIdle

\* notify_one: xSemaphoreGive on the binary semaphore (a give on a semaphore
\* that holds its token changes nothing), tx_semaphore_put on the counting
\* semaphore.
Cv_Give(kind, sem) == IF kind = "FreeRTOS" THEN 1 ELSE sem + 1

\* Another thread makes the predicate of waiter w true, under the mutex ...
Notifier_SetPredicate(w) ==
    /\ nPc[w] = "set"
    /\ cvLock = "free"
    /\ pred' = [pred EXCEPT ![w] = TRUE]
    /\ nPc' = [nPc EXCEPT ![w] = "notify"]
    /\ UNCHANGED <<cvKind, m_sem, cvLock, wPc, wMode, wRet>>
    /\ UNCHANGED NotCv

\* ... and then calls notify_one.
Cv_notify_one(w) ==
    /\ nPc[w] = "notify"
    /\ m_sem' = Cv_Give(cvKind, m_sem)
    /\ nPc' = [nPc EXCEPT ![w] = "done"]
    /\ UNCHANGED <<cvKind, cvLock, pred, wPc, wMode, wRet>>
    /\ UNCHANGED NotCv

\* The waiter locks the mutex and calls wait or wait_for.
Cv_Call(w) ==
    /\ wPc[w] = "idle"
    /\ cvLock = "free"
    /\ cvLock' = w
    /\ wPc' = [wPc EXCEPT ![w] = "pred"]
    /\ UNCHANGED <<cvKind, m_sem, pred, wMode, wRet, nPc>>
    /\ UNCHANGED NotCv

\* while (!pred()): with the predicate true the call returns (true) and the
\* caller unlocks; otherwise lock.unlock() and the semaphore take.  wait_for
\* returns pred() instead when the time has elapsed.
Cv_TestPredicate(w, elapsed) ==
    /\ wPc[w] = "pred"
    /\ elapsed => wMode[w] = "wait_for" /\ ~pred[w]
    /\ cvLock' = "free"
    /\ IF pred[w] \/ elapsed
       THEN /\ wPc' = [wPc EXCEPT ![w] = "returned"]
            /\ wRet' = [wRet EXCEPT ![w] = IF pred[w] THEN "true" ELSE "false"]
       ELSE /\ wPc' = [wPc EXCEPT ![w] = "take"]
            /\ wRet' = wRet
    /\ UNCHANGED <<cvKind, m_sem, pred, wMode, nPc>>
    /\ UNCHANGED NotCv

\* xSemaphoreTake / tx_semaphore_get returns with a token.
Cv_Take(w) ==
    /\ wPc[w] = "take"
    /\ m_sem > 0
    /\ m_sem' = m_sem - 1
    /\ wPc' = [wPc EXCEPT ![w] = "lock"]
    /\ UNCHANGED <<cvKind, cvLock, pred, wMode, wRet, nPc>>
    /\ UNCHANGED NotCv

\* wait_for: the take returns without a token after the remaining time.
Cv_TakeTimeout(w) ==
    /\ wPc[w] = "take"
    /\ wMode[w] = "wait_for"
    /\ wPc' = [wPc EXCEPT ![w] = "lockTimeout"]
    /\ UNCHANGED <<cvKind, m_sem, cvLock, pred, wMode, wRet, nPc>>
    /\ UNCHANGED NotCv

\* lock.lock() after the take; after a token the loop tests the predicate
\* again, after a timeout wait_for returns pred() and the caller unlocks.
Cv_Relock(w) ==
    /\ wPc[w] \in {"lock", "lockTimeout"}
    /\ cvLock = "free"
    /\ IF wPc[w] = "lock"
       THEN /\ cvLock' = w
            /\ wPc' = [wPc EXCEPT ![w] = "pred"]
            /\ wRet' = wRet
       ELSE /\ cvLock' = "free"
            /\ wPc' = [wPc EXCEPT ![w] = "returned"]
            /\ wRet' = [wRet EXCEPT ![w] = IF pred[w] THEN "true" ELSE "false"]
    /\ UNCHANGED <<cvKind, m_sem, pred, wMode, nPc>>
    /\ UNCHANGED NotCv

\* The engine's threads after construction: the network thread runs with an
\* empty queue, the receive thread does not exist yet.
ThreadsIdle ==
    /\ appPc = "idle"
    /\ calls = 0
    /\ inStop = FALSE
    /\ netQ = <<>>
    /\ netPc = "idle"
    /\ recvPc = "none"
    /\ m_recvThreadExit = FALSE
    /\ bRecvThreadCreated = FALSE
    /\ exitPosted = FALSE
    /\ mutexOwner = "none"
    /\ port = "unopened"
    /\ timerOn = FALSE
    /\ handoffs = 0
    /\ raced = FALSE
    /\ accessLog = {}

\* The Dispatcher and the engine's threads before anything is configured.
EngIdle ==
    /\ ThreadsIdle
    /\ SigIdle
    /\ ITIdle
    /\ RtosIdle
    /\ m_transport = "none"
    /\ dispatchLog = <<>>
    /\ m_receiveIdMap = OneEndpoint
    /\ engLog = <<EngEntry("register", 1, 0, <<>>, "A", FALSE)>>

\* The worker-thread part at rest while the network part runs.
WorkerIdle == WorkerInit /\ impl = "Logger" /\ EngIdle

\* What the monitor and the reliable transport hold after one frame
\* (id 1, sequence number 1) has been dispatched and written.
FirstSent(t) ==
    [pending |-> {[seq |-> 1, id |-> 1, age |-> 0]},
     store |-> {[seq |-> 1, id |-> 1, payload |-> <<170>>, retries |-> 0]},
     wire |-> Transport_Send(t, NewHeader(1, 1), <<170>>, TRUE, TRUE).wire]

\* Effect on the monitor of a Send call for header h that returned r.
AfterSend(pending, r, h) ==
    IF r.add THEN Monitor_Add(pending, h.seq, h.id) ELSE pending

\* ---- Dispatcher -----------------------------------------------------------
MaxDispatch == 3

\* DmqHeader::GetNextSeqNum: the counter is a uint16_t.
NextSeqNum(s) == (s + 1) % 65536

SeqAfterDispatchOnSuccess(s, ret) == IF ret = 0 THEN NextSeqNum(s) ELSE s

\* The counter after a Dispatch call that returned ret: the header, and with
\* it the sequence number, is built before m_transport is looked at.
SeqAfterDispatch(s, ret) == NextSeqNum(s)

\* The stream Dispatch hands to the transport: marker, id and sequence
\* number as they lie in memory, then the argument bytes.
Dispatcher_Stream(header, payload) ==
    Store16(header.marker) \o Store16(header.id) \o Store16(header.seq) \o payload

Dispatcher_SendRetrying(stream, configured, ok) ==
    IF configured
    THEN [sends |-> IF ok THEN 1 ELSE 2, ret |-> IF ok THEN 0 ELSE -1,
          wire |-> IF ok THEN <<stream>> ELSE <<>>]
    ELSE [sends |-> 0, ret |-> -1, wire |-> <<>>]

\* The end of Dispatch: one m_transport->Send(ss) whose status is returned,
\* or -1 when no transport is set.  ok: that Send succeeds.
Dispatcher_Send(stream, configured, ok) ==
    IF configured
    THEN [sends |-> 1, ret |-> IF ok THEN 0 ELSE -1,
          wire |-> IF ok THEN <<stream>> ELSE <<>>]
    ELSE [sends |-> 0, ret |-> -1, wire |-> <<>>]

\* Dispatcher::SetTransport
SetTransport(t) ==
    /\ m_transport # t
    /\ m_transport' = t
    /\ UNCHANGED <<dispatchLog, m_receiveIdMap, engLog, thrVars, sigVars, itVars, rtosVars, netVars, workerVars>>

\* Dispatcher::Dispatch
Dispatcher_Dispatch(id, payload, ok) ==
    LET header == NewHeader(id, seqNum)
        configured == m_transport # "none"
        r == Dispatcher_Send(Dispatcher_Stream(header, payload), configured, ok)
    IN  /\ Len(dispatchLog) < MaxDispatch
        /\ configured \/ ok
        /\ seqNum' = SeqAfterDispatch(seqNum, r.ret)
        /\ tx' = tx \o r.wire
        /\ dispatchLog' = Append(dispatchLog,
               [id |-> id, seq |-> header.seq, configured |-> configured, ok |-> ok,
                sends |-> r.sends, ret |-> r.ret, wire |-> r.wire])
        /\ UNCHANGED <<transport, hasMonitor, m_pending, m_retryStore, dispatched,
                       peerSent, rx, peerFrame, lastRecv, incomingQ, invoked, stat>>
        /\ UNCHANGED <<m_transport, m_receiveIdMap, engLog, thrVars, sigVars, itVars, rtosVars, workerVars>>

\* Dispatcher::Dispatch through the reliable transport: takes the next
\* sequence number, has the frame remembered for retry and makes one Send.
Dispatch(id, payload, ok) ==
    LET h == NewHeader(id, seqNum)
        r == Transport_Send(transport, h, payload, hasMonitor, ok)
    IN  /\ dispatched < MaxFrames
        /\ dispatched' = dispatched + 1
        /\ seqNum' = NextSeqNum(seqNum)
        /\ m_retryStore' = m_retryStore \cup
               {[seq |-> seqNum, id |-> id, payload |-> payload, retries |-> 0]}
        /\ m_pending' = AfterSend(m_pending, r, h)
        /\ tx' = IF r.wire # <<>> THEN Append(tx, r.wire) ELSE tx
        /\ stat' = [s \in DOMAIN stat \cup {seqNum} |->
                       IF s = seqNum THEN NewStat ELSE stat[s]]
        /\ UNCHANGED <<transport, hasMonitor, peerSent, rx, peerFrame, lastRecv,
                       incomingQ, invoked>>
        /\ UNCHANGED <<workerVars, engVars>>

\* The frames a retry writes, in sequence-number order: sends[r] is what Send
\* did for record r.
RECURSIVE Resent(_, _)
Resent(S, sends) ==
    IF S = {} THEN <<>>
    ELSE LET r == CHOOSE x \in S : \A y \in S : x.seq <= y.seq
         IN  (IF sends[r].wire # <<>> THEN <<sends[r].wire>> ELSE <<>>)
             \o Resent(S \ {r}, sends)

\* frames dispatched through a transport that is monitored but not wrapped
MaxMonSends == 3

\* Dispatcher::Dispatch straight to a monitored transport, without the
\* reliable wrapper: the frame is written and the transport's Send calls the
\* monitor's Add; nothing remembers the frame for a retry.
Dispatch_Raw(id, payload) ==
    LET h == NewHeader(id, seqNum)
        r == Transport_Send(transport, h, payload, hasMonitor, TRUE)
    IN  /\ dispatched < MaxMonSends
        /\ dispatched' = dispatched + 1
        /\ seqNum' = NextSeqNum(seqNum)
        /\ m_pending' = AfterSend(m_pending, r, h)
        /\ tx' = Append(tx, r.wire)
        /\ stat' = [s \in DOMAIN stat \cup {seqNum} |->
                       IF s = seqNum THEN NewStat ELSE stat[s]]
        /\ UNCHANGED <<transport, hasMonitor, m_retryStore, peerSent, rx, peerFrame,
                       lastRecv, incomingQ, invoked>>
        /\ UNCHANGED <<workerVars, engVars>>

\* Whether a transport's Send calls the monitor's Add before it writes the
\* frame (serial, STM32) or after the write has succeeded (netconn).
AddBeforeWrite(t) == t # "Netconn"

\* The sequence number of the frame the sending thread is inside Send with.
InFlightSeq == (seqNum + 65535) % 65536

\* The sending thread enters the transport's Send for a new frame and does
\* the first of its two effects, the monitor's Add or the write.
Send_Begin(id, payload) ==
    LET h == NewHeader(id, seqNum)
        r == Transport_Send(transport, h, payload, hasMonitor, TRUE)
    IN  /\ netPc = "idle"
        /\ dispatched < MaxFrames
        /\ netPc' = "send"
        /\ dispatched' = dispatched + 1
        /\ seqNum' = NextSeqNum(seqNum)
        /\ IF AddBeforeWrite(transport)
           THEN m_pending' = AfterSend(m_pending, r, h) /\ tx' = tx
           ELSE tx' = Append(tx, r.wire) /\ m_pending' = m_pending
        /\ stat' = [s \in DOMAIN stat \cup {seqNum} |->
                       IF s = seqNum THEN NewStat ELSE stat[s]]
        /\ UNCHANGED <<transport, hasMonitor, m_retryStore, peerSent, rx, peerFrame,
                       lastRecv, incomingQ, invoked>>
        /\ UNCHANGED <<appPc, calls, inStop, netQ, recvPc, m_recvThreadExit,
                       bRecvThreadCreated, exitPosted, mutexOwner, port, timerOn,
                       handoffs, raced, accessLog>>
        /\ UNCHANGED <<m_transport, dispatchLog, m_receiveIdMap, engLog, sigVars, itVars, rtosVars,
                       workerVars>>

\* The sending thread does the second effect and leaves Send.
Send_End(id, payload) ==
    LET h == NewHeader(id, InFlightSeq)
        r == Transport_Send(transport, h, payload, hasMonitor, TRUE)
    IN  /\ netPc = "send"
        /\ netPc' = "idle"
        /\ IF AddBeforeWrite(transport)
           THEN tx' = Append(tx, r.wire) /\ m_pending' = m_pending
           ELSE m_pending' = AfterSend(m_pending, r, h) /\ tx' = tx
        /\ UNCHANGED <<transport, hasMonitor, m_retryStore, seqNum, dispatched, peerSent,
                       rx, peerFrame, lastRecv, incomingQ, invoked, stat>>
        /\ UNCHANGED <<appPc, calls, inStop, netQ, recvPc, m_recvThreadExit,
                       bRecvThreadCreated, exitPosted, mutexOwner, port, timerOn,
                       handoffs, raced, accessLog>>
        /\ UNCHANGED <<m_transport, dispatchLog, m_receiveIdMap, engLog, sigVars, itVars, rtosVars,
                       workerVars>>

\* NetworkEngine::Timeout, run on every expiry of the 100 ms timer:
\* TransportMonitor::Process reports each record older than the timeout; for
\* each one the reliable transport resends the remembered frame through the
\* transport's Send, or gives up, forgets the frame and reports the failure.
Timeout(ok) ==
    /\ m_pending # {}
    /\ \E aged \in {Monitor_Aged(m_pending)} :
       \E stale \in {Monitor_Stale(aged)} :
       \E retry \in {{r \in stale : IsStored(m_retryStore, r.seq)
                                    /\ RetryAllowed(Stored(m_retryStore, r.seq).retries)}} :
       \E sends \in {[r \in retry |->
                        Transport_Send(transport, NewHeader(r.id, r.seq),
                                       Stored(m_retryStore, r.seq).payload, hasMonitor, ok)]} :
       LET giveUp == stale \ retry
           Seqs(S) == {r.seq : r \in S}
       IN  /\ ok \/ retry # {}
           /\ m_pending' = (aged \ stale) \cup
                  {IF sends[r].add THEN [r EXCEPT !.age = 0] ELSE r : r \in retry}
           /\ m_retryStore' =
                  {IF e.seq \in Seqs(retry) THEN [e EXCEPT !.retries = @ + 1] ELSE e :
                      e \in {x \in m_retryStore : x.seq \notin Seqs(giveUp)}}
           /\ tx' = IF retry = {} THEN tx ELSE tx \o Resent(retry, sends)
           /\ stat' = IF stale = {} THEN stat ELSE
                  [s \in DOMAIN stat |->
                     [stat[s] EXCEPT
                        !.timeouts = @ + (IF s \in Seqs(stale) THEN 1 ELSE 0),
                        !.retx = @ + (IF s \in Seqs(retry) THEN 1 ELSE 0),
                        !.fails = @ + (IF s \in Seqs(giveUp) THEN 1 ELSE 0)]]
    /\ UNCHANGED <<transport, hasMonitor, seqNum, dispatched, peerSent, rx,
                   peerFrame, lastRecv, incomingQ, invoked>>
    /\ UNCHANGED <<workerVars, engVars>>

\* The peer encodes a frame with its own Send and puts it on the wire.
PeerSendUpTo(n, id, seq, payload) ==
    LET wire == Transport_Send(transport, NewHeader(id, seq), payload, FALSE, TRUE).wire
    IN  /\ peerSent < n
        /\ rx = <<>>
        /\ peerSent' = peerSent + 1
        /\ rx' = wire
        /\ peerFrame' = [id |-> id, seq |-> seq, payload |-> payload, wire |-> wire,
                         corrupted |-> FALSE]
        /\ lastRecv' = NoRecv
        /\ UNCHANGED <<transport, hasMonitor, m_pending, m_retryStore, seqNum, dispatched,
                       tx, incomingQ, invoked, stat>>
        /\ UNCHANGED <<workerVars, engVars>>

PeerSend(id, seq, payload) == PeerSendUpTo(MaxPeer, id, seq, payload)

\* Copies of the frame with sequence number s this side has written.
Copies(s) ==
    Cardinality({i \in 1..Len(tx) :
        LET h == ParseHeader(SubSeq(tx[i], 1, HEADER_SIZE))
        IN  h.seq = s /\ h.id # ACK_REMOTE_ID})

\* The peer acknowledges a copy it received of the frame numbered s.
PeerAck(s) ==
    LET wire == Transport_Send(transport, AckHeader(s), <<>>, FALSE, TRUE).wire
    IN  /\ rx = <<>>
        /\ s \in DOMAIN stat
        /\ stat[s].acks < Copies(s)
        /\ rx' = wire
        /\ peerFrame' = [id |-> ACK_REMOTE_ID, seq |-> s, payload |-> <<>>, wire |-> wire,
                         corrupted |-> FALSE]
        /\ stat' = [stat EXCEPT ![s].acks = @ + 1]
        /\ lastRecv' = NoRecv
        /\ UNCHANGED <<transport, hasMonitor, m_pending, m_retryStore, seqNum, dispatched,
                       peerSent, tx, incomingQ, invoked>>
        /\ UNCHANGED <<workerVars, engVars>>

\* The line damages one byte of the frame in flight: mask 1 flips its lowest
\* bit, mask 255 all of its bits.
Corrupt(i, mask) ==
    /\ rx # <<>>
    /\ rx = peerFrame.wire
    /\ i \in 1..Len(rx)
    /\ rx' = [rx EXCEPT ![i] = Xor(@, mask)]
    /\ peerFrame' = [peerFrame EXCEPT !.corrupted = TRUE]
    /\ UNCHANGED <<transport, hasMonitor, m_pending, m_retryStore, seqNum, dispatched,
                   peerSent, tx, lastRecv, incomingQ, invoked, stat>>
    /\ UNCHANGED <<workerVars, engVars>>

ForwardableEmptyPayload(error, payload, exit) == error = 0 /\ ~exit

ForwardableIgnoringError(error, payload, exit) == payload # <<>> /\ ~exit

\* The condition under which RecvThread hands a frame to Incoming.
Forwardable(error, payload, exit) == error = 0 /\ payload # <<>> /\ ~exit

\* One iteration of NetworkEngine::RecvThread: the transport's Receive with
\* its reliability step (Remove for an ACK, an ACK sent for anything else),
\* then the hand-over to the network thread.  ok: the ACK's write succeeds.
RecvThread(ok) ==
    /\ rx # <<>>
    /\ \E r \in {Transport_Receive(transport, rx, hasMonitor)} :
       LET removed == r.remove # -1 /\ Monitor_Has(m_pending, r.remove)
           p1 == IF r.remove # -1 THEN Monitor_Remove(m_pending, r.remove) ELSE m_pending
           ackH == AckHeader(r.hdr.seq)
           a == IF r.ack THEN Transport_Send(transport, ackH, <<>>, hasMonitor, ok)
                ELSE SendFailed
           p2 == AfterSend(p1, a, ackH)
           fwd == Forwardable(r.err, r.payload, m_recvThreadExit)
           gotAck == r.err = 0 /\ r.hdr.id = ACK_REMOTE_ID
       IN  /\ r.returned
           /\ ok \/ r.ack
           /\ rx' = SubSeq(rx, r.used + 1, Len(rx))
           /\ m_pending' = p2
           /\ m_retryStore' = IF removed
                              THEN {e \in m_retryStore : e.seq # r.remove}
                              ELSE m_retryStore
           /\ tx' = IF a.wire # <<>> THEN Append(tx, a.wire) ELSE tx
           /\ incomingQ' = IF fwd
                           THEN Append(incomingQ, [hdr |-> r.hdr, payload |-> r.payload])
                           ELSE incomingQ
           /\ stat' = [s \in DOMAIN stat |->
                  IF gotAck /\ s = r.hdr.seq
                  THEN [stat[s] EXCEPT
                          !.succ = @ + (IF removed THEN 1 ELSE 0),
                          !.ackAt = IF @ = -1 /\ IsStored(m_retryStore, s)
                                    THEN stat[s].retx ELSE @]
                  ELSE stat[s]]
           /\ lastRecv' = [called |-> TRUE, err |-> r.err, reason |-> r.reason,
                           hdr |-> r.hdr, payload |-> r.payload, crcOk |-> r.crcOk,
                           clean |-> rx = peerFrame.wire,
                           ackSent |-> r.ack, pendingChanged |-> p2 # m_pending,
                           forwarded |-> fwd, overtook |-> Len(incomingQ)]
    /\ UNCHANGED <<transport, hasMonitor, seqNum, dispatched, peerSent, peerFrame,
                   invoked>>
    /\ UNCHANGED <<workerVars, engVars>>

\* NetworkEngine::Stop on the application thread sets m_recvThreadExit = true
\* while the receive thread is anywhere in RecvThread.
Stop_RaiseExitFlag ==
    /\ ~m_recvThreadExit
    /\ m_recvThreadExit' = TRUE
    /\ UNCHANGED <<appPc, calls, inStop, netQ, netPc, recvPc, bRecvThreadCreated,
                   exitPosted, mutexOwner, port, timerOn, handoffs, raced, accessLog>>
    /\ UNCHANGED <<m_transport, dispatchLog, m_receiveIdMap, engLog, sigVars, itVars,
                   rtosVars, netVars, workerVars>>

MaxRegister == 2
MaxRecv == 2

\* NetworkEngine::RegisterEndpoint, as it runs on the network thread.
RegisterEndpoint(id, ep) ==
    /\ Cardinality({i \in 1..Len(engLog) : engLog[i].kind = "register"}) < MaxRegister
    /\ m_receiveIdMap' = Registry_Put(m_receiveIdMap, id, ep)
    /\ engLog' = Append(engLog, EngEntry("register", id, 0, <<>>, ep, FALSE))
    /\ UNCHANGED <<m_transport, dispatchLog, thrVars, sigVars, itVars, rtosVars, netVars, workerVars>>

Incoming_OutcomeErrorOnUnknown(map, id) ==
    LET found == id \in DOMAIN map /\ map[id] # "absent" /\ map[id] # "null"
    IN  [target |-> IF id # ACK_REMOTE_ID /\ found THEN map[id] ELSE "none",
         error |-> id # ACK_REMOTE_ID /\ ~found]

Incoming_OutcomeNoAckFilter(map, id) ==
    LET found == id \in DOMAIN map /\ map[id] # "absent" /\ map[id] # "null"
    IN  [target |-> IF found THEN map[id] ELSE "none", error |-> FALSE]

\* What Incoming does with a frame for id: the endpoint it invokes ("none":
\* nothing is invoked) and whether it raises an error or status event.
Incoming_Outcome(map, id) ==
    LET found == id \in DOMAIN map /\ map[id] # "absent" /\ map[id] # "null"
    IN  [target |-> IF id # ACK_REMOTE_ID /\ found THEN map[id] ELSE "none",
         error |-> FALSE]

\* The header a work item hands to its target when it sees the receive
\* thread's variable instead of its own copy.
WorkItem_HeaderByReference(item, header) == header

\* The header argument an Incoming work item hands to its target: the copy
\* taken when AsyncInvoke(header, arg_data) built the item, whatever the
\* receive thread's header variable holds by now.
WorkItem_Header(item, header) == item.hdr

\* NetworkEngine::Incoming on the network thread.
Incoming ==
    /\ incomingQ # <<>>
    /\ LET header == WorkItem_Header(Head(incomingQ), lastRecv.hdr)
           arg_data == Head(incomingQ).payload
           o == Incoming_Outcome(m_receiveIdMap, header.id)
       IN  /\ invoked' = IF o.target # "none"
                         THEN Append(invoked, [id |-> header.id, payload |-> arg_data,
                                               ep |-> o.target])
                         ELSE invoked
           /\ engLog' = Append(engLog, EngEntry("incoming", header.id, header.seq,
                                                arg_data, o.target, o.error))
    /\ incomingQ' = Tail(incomingQ)
    /\ UNCHANGED <<transport, hasMonitor, m_pending, m_retryStore, seqNum, dispatched,
                   peerSent, tx, rx, peerFrame, lastRecv, stat>>
    /\ UNCHANGED <<m_transport, dispatchLog, m_receiveIdMap, thrVars, sigVars, itVars, rtosVars, workerVars>>

\* ========================================================================
\* NetworkEngine: the application thread, the network thread (m_thread) and
\* the receive thread (m_recvThread)
\* ========================================================================
MaxCalls == 4
NetQueueSize == 2
INVOKE_TIMEOUT == 1000
WAIT_INFINITE == -1

Threads == {"app", "net", "recv"}

\* Send takes m_mutex in the serial and the STM32 transport; the netconn
\* transport has no mutex.
HasMutex(t) == t \in {"Serial", "Stm32"}
\* SerialTransport::Close takes m_mutex too.
CloseLocks(t) == t = "Serial"
\* Close releases the port or connection; Stm32UartTransport::Close is empty.
CloseReleases(t) == t # "Stm32"
\* Receive returns without data after a while: the serial reads and the
\* netconn receive have timeouts, and both return at once when the port is
\* closed.  The STM32 transport waits for a byte with portMAX_DELAY.
ReceiveBounded(t) == t # "Stm32"

\* The transport object behind m_sendTransport ("send") or m_recvTransport
\* ("recv"): one shared object for the serial and the STM32 transport.
TransportObject(t, role) == IF t = "Netconn" THEN role ELSE "port"

\* The transport objects a thread is inside a call of.
InsideOf(th) ==
    IF th = "app"
    THEN (IF appPc = "closing1" THEN {TransportObject(transport, "recv")}
          ELSE IF appPc = "closing2" THEN {TransportObject(transport, "send")}
          ELSE {})
    ELSE IF th = "net"
    THEN (IF netPc = "send" THEN {TransportObject(transport, "send")} ELSE {})
    ELSE (IF recvPc \in {"receive", "gotFrame"}
          THEN {TransportObject(transport, "recv")}
          ELSE IF recvPc = "ack"
          THEN {TransportObject(transport, "recv"), TransportObject(transport, "send")}
          ELSE {})

WorkItem(fn, wait, n) == [fn |-> fn, wait |-> wait, n |-> n]

\* Thread::DispatchDelegate: the message is queued, or dropped when the queue
\* is still full after the short wait.
Enqueue(q, item) == IF Len(q) < NetQueueSize THEN Append(q, item) ELSE q

Touch(fields, fn, th) ==
    accessLog \cup {[field |-> f, fn |-> fn, thread |-> th] : f \in fields}

\* The caller of a blocking call resumes when the network thread has run it.
Wake(item) == IF item.wait /\ appPc = "wait" THEN "idle" ELSE appPc

RecvThread_HandoffWaitInfinite == WAIT_INFINITE

\* The wait RecvThread gives the hand-over of a frame to the network thread.
RecvThread_HandoffWait == INVOKE_TIMEOUT

\* A call from the application thread: the thread test fails and the call is
\* marshaled to the network thread, waiting for it (wait) or not.
Marshal(fn, wait) ==
    /\ appPc = "idle"
    /\ calls < MaxCalls
    /\ calls' = calls + 1
    /\ netQ' = Enqueue(netQ, WorkItem(fn, wait, 0))
    /\ appPc' = IF wait THEN "wait" ELSE "idle"
    /\ UNCHANGED <<inStop, netPc, recvPc, m_recvThreadExit, bRecvThreadCreated,
                   exitPosted, mutexOwner, port, timerOn, handoffs, raced, accessLog>>
    /\ UNCHANGED <<m_transport, dispatchLog, m_receiveIdMap, engLog, sigVars, itVars, rtosVars, netVars,
                   workerVars>>

App_Initialize == Marshal("Initialize", TRUE)
App_Start == Marshal("Start", FALSE)
App_RegisterEndpoint == Marshal("RegisterEndpoint", TRUE)
\* TestServer::SendStartMsg and its siblings
App_Send == Marshal("Send", FALSE)

\* NetworkEngine::Stop entered on the application thread.
App_Stop ==
    /\ appPc = "idle"
    /\ calls < MaxCalls
    /\ calls' = calls + 1
    /\ appPc' = "stop"
    /\ inStop' = TRUE
    /\ UNCHANGED <<netQ, netPc, recvPc, m_recvThreadExit, bRecvThreadCreated,
                   exitPosted, mutexOwner, port, timerOn, handoffs, raced, accessLog>>
    /\ UNCHANGED <<m_transport, dispatchLog, m_receiveIdMap, engLog, sigVars, itVars, rtosVars, netVars,
                   workerVars>>

\* Stop, not on the network thread: m_recvTransport.Close(), then
\* m_sendTransport.Close(), entered ...
Stop_CloseBegin ==
    /\ appPc \in {"stop", "closed1"}
    /\ CloseLocks(transport) => mutexOwner = "none"
    /\ appPc' = IF appPc = "stop" THEN "closing1" ELSE "closing2"
    /\ mutexOwner' = IF CloseLocks(transport) THEN "app" ELSE mutexOwner
    /\ accessLog' = Touch({"transports"}, "Stop", "app")
    /\ UNCHANGED <<calls, inStop, netQ, netPc, recvPc, m_recvThreadExit,
                   bRecvThreadCreated, exitPosted, port, timerOn, handoffs, raced>>
    /\ UNCHANGED <<m_transport, dispatchLog, m_receiveIdMap, engLog, sigVars, itVars, rtosVars, netVars,
                   workerVars>>

\* ... and left.
Stop_CloseEnd ==
    /\ appPc \in {"closing1", "closing2"}
    /\ LET releases == CloseReleases(transport) /\ port = "open" /\ appPc = "closing1"
       IN  /\ port' = IF releases THEN "closed" ELSE port
           /\ raced' = (raced \/ (releases /\ InsideOf("app") \cap InsideOf("recv") # {}))
    /\ appPc' = IF appPc = "closing1" THEN "closed1" ELSE "closed2"
    /\ mutexOwner' = IF mutexOwner = "app" THEN "none" ELSE mutexOwner
    /\ UNCHANGED <<calls, inStop, netQ, netPc, recvPc, m_recvThreadExit,
                   bRecvThreadCreated, exitPosted, timerOn, handoffs, accessLog>>
    /\ UNCHANGED <<m_transport, dispatchLog, m_receiveIdMap, engLog, sigVars, itVars, rtosVars, netVars,
                   workerVars>>

\* Stop: m_recvThreadExit = true
Stop_SetExit ==
    /\ appPc = "closed2"
    /\ m_recvThreadExit' = TRUE
    /\ appPc' = "flagged"
    /\ accessLog' = Touch({"m_recvThreadExit"}, "Stop", "app")
    /\ UNCHANGED <<calls, inStop, netQ, netPc, recvPc, bRecvThreadCreated, exitPosted,
                   mutexOwner, port, timerOn, handoffs, raced>>
    /\ UNCHANGED <<m_transport, dispatchLog, m_receiveIdMap, engLog, sigVars, itVars, rtosVars, netVars,
                   workerVars>>

\* Stop: m_recvThread.ExitThread() returns at once when the thread has no
\* queue (never created, or ended); otherwise it posts the exit message and
\* waits for the thread to end.
Stop_ExitThread ==
    /\ appPc = "flagged"
    /\ exitPosted' = (exitPosted \/ recvPc \notin {"none", "dead"})
    /\ appPc' = IF recvPc \in {"none", "dead"} THEN "exitDone" ELSE "exitWait"
    /\ accessLog' = Touch({"m_recvThread"}, "Stop", "app")
    /\ UNCHANGED <<calls, inStop, netQ, netPc, recvPc, m_recvThreadExit,
                   bRecvThreadCreated, mutexOwner, port, timerOn, handoffs, raced>>
    /\ UNCHANGED <<m_transport, dispatchLog, m_receiveIdMap, engLog, sigVars, itVars, rtosVars, netVars,
                   workerVars>>

\* ExitThread: the receive thread has ended.
Stop_ExitThreadJoin ==
    /\ appPc = "exitWait"
    /\ recvPc = "dead"
    /\ appPc' = "exitDone"
    /\ UNCHANGED <<calls, inStop, netQ, netPc, recvPc, m_recvThreadExit,
                   bRecvThreadCreated, exitPosted, mutexOwner, port, timerOn, handoffs,
                   raced, accessLog>>
    /\ UNCHANGED <<m_transport, dispatchLog, m_receiveIdMap, engLog, sigVars, itVars, rtosVars, netVars,
                   workerVars>>

\* Stop: ExitThread has returned; Stop is marshaled to the network thread and
\* waited for.
Stop_Marshal ==
    /\ appPc = "exitDone"
    /\ netQ' = Enqueue(netQ, WorkItem("Stop", TRUE, 0))
    /\ appPc' = "wait"
    /\ UNCHANGED <<calls, inStop, netPc, recvPc, m_recvThreadExit, bRecvThreadCreated,
                   exitPosted, mutexOwner, port, timerOn, handoffs, raced, accessLog>>
    /\ UNCHANGED <<m_transport, dispatchLog, m_receiveIdMap, engLog, sigVars, itVars, rtosVars, netVars,
                   workerVars>>

NetHead(fn) == netPc = "idle" /\ netQ # <<>> /\ Head(netQ).fn = fn

\* NetworkEngine::Initialize on the network thread.  ok: Create succeeds.
Net_Initialize(ok) ==
    /\ NetHead("Initialize")
    /\ netQ' = Tail(netQ)
    /\ port' = IF ok THEN "open" ELSE port
    /\ m_transport' = IF ok THEN "port" ELSE m_transport
    /\ accessLog' = Touch(IF ok THEN {"transports", "statusConn", "dispatcher"}
                          ELSE {"transports"}, "Initialize", "net")
    /\ appPc' = Wake(Head(netQ))
    /\ UNCHANGED <<calls, inStop, netPc, recvPc, m_recvThreadExit, bRecvThreadCreated,
                   exitPosted, mutexOwner, timerOn, handoffs, raced>>
    /\ UNCHANGED <<dispatchLog, m_receiveIdMap, engLog, sigVars, itVars, rtosVars, netVars, workerVars>>

\* A Start that creates the receive thread whatever the flag says.
Start_CreatesAlways(created) == TRUE

\* Start creates the receive thread and posts RecvThread only while the
\* function's static flag is still false.
Start_Creates(created) == ~created

\* NetworkEngine::Start on the network thread.
Net_Start ==
    /\ NetHead("Start")
    /\ netQ' = Tail(netQ)
    /\ bRecvThreadCreated' = TRUE
    /\ recvPc' = IF Start_Creates(bRecvThreadCreated) THEN "loop" ELSE recvPc
    /\ timerOn' = TRUE
    /\ accessLog' = Touch((IF bRecvThreadCreated THEN {} ELSE {"m_recvThread"})
                          \cup {"bRecvThreadCreated", "timer"}, "Start", "net")
    /\ UNCHANGED <<appPc, calls, inStop, netPc, m_recvThreadExit, exitPosted,
                   mutexOwner, port, handoffs, raced>>
    /\ UNCHANGED <<m_transport, dispatchLog, m_receiveIdMap, engLog, sigVars, itVars, rtosVars, netVars,
                   workerVars>>

\* NetworkEngine::Start of a second engine of the same process, on that
\* engine's network thread, taken between the steps of the first engine's
\* threads.  Both engines read and write the one static flag; the second
\* engine's timer and receive thread are its own members.
Net2_Start ==
    /\ bRecvThreadCreated' = TRUE
    /\ recv2Pc' = IF Start_Creates(bRecvThreadCreated) THEN "loop"
                  ELSE IF recv2Pc = "unstarted" THEN "none" ELSE recv2Pc
    /\ UNCHANGED <<appPc, calls, inStop, netQ, netPc, recvPc, m_recvThreadExit, exitPosted,
                   mutexOwner, port, timerOn, handoffs, raced, accessLog>>
    /\ UNCHANGED <<ctKind, ctCalls, ctTasks, ctQueue, ctRan>>
    /\ UNCHANGED <<m_transport, dispatchLog, m_receiveIdMap, engLog, sigVars, itVars,
                   ringVars, cvVars, netVars, workerVars>>

\* NetworkEngine::Stop on the network thread.
Net_Stop ==
    /\ NetHead("Stop")
    /\ netQ' = Tail(netQ)
    /\ timerOn' = FALSE
    /\ inStop' = FALSE
    /\ accessLog' = Touch({"timer", "statusConn"}, "Stop", "net")
    /\ appPc' = Wake(Head(netQ))
    /\ UNCHANGED <<calls, netPc, recvPc, m_recvThreadExit, bRecvThreadCreated,
                   exitPosted, mutexOwner, port, handoffs, raced>>
    /\ UNCHANGED <<m_transport, dispatchLog, m_receiveIdMap, engLog, sigVars, itVars, rtosVars, netVars,
                   workerVars>>

\* NetworkEngine::RegisterEndpoint on the network thread.
Net_RegisterEndpoint ==
    /\ NetHead("RegisterEndpoint")
    /\ netQ' = Tail(netQ)
    /\ m_receiveIdMap' = Registry_Put(m_receiveIdMap, 1, "A")
    /\ engLog' = Append(engLog, EngEntry("register", 1, 0, <<>>, "A", FALSE))
    /\ accessLog' = Touch({"m_receiveIdMap"}, "RegisterEndpoint", "net")
    /\ appPc' = Wake(Head(netQ))
    /\ UNCHANGED <<calls, inStop, netPc, recvPc, m_recvThreadExit, bRecvThreadCreated,
                   exitPosted, mutexOwner, port, timerOn, handoffs, raced>>
    /\ UNCHANGED <<m_transport, dispatchLog, sigVars, itVars, rtosVars, netVars, workerVars>>

\* A remote delegate invoked on the network thread: Dispatch enters the
\* transport's Send, or returns at once when no transport is set.
Net_SendBegin ==
    /\ NetHead("Send")
    /\ m_transport # "none" => (HasMutex(transport) => mutexOwner = "none")
    /\ netQ' = Tail(netQ)
    /\ netPc' = IF m_transport # "none" THEN "send" ELSE "idle"
    /\ mutexOwner' = IF m_transport # "none" /\ HasMutex(transport) THEN "net"
                     ELSE mutexOwner
    /\ UNCHANGED <<appPc, calls, inStop, recvPc, m_recvThreadExit, bRecvThreadCreated,
                   exitPosted, port, timerOn, handoffs, raced, accessLog>>
    /\ UNCHANGED <<m_transport, dispatchLog, m_receiveIdMap, engLog, sigVars, itVars, rtosVars, netVars,
                   workerVars>>

Net_SendEnd ==
    /\ netPc = "send"
    /\ netPc' = "idle"
    /\ mutexOwner' = IF mutexOwner = "net" THEN "none" ELSE mutexOwner
    /\ UNCHANGED <<appPc, calls, inStop, netQ, recvPc, m_recvThreadExit,
                   bRecvThreadCreated, exitPosted, port, timerOn, handoffs, raced,
                   accessLog>>
    /\ UNCHANGED <<m_transport, dispatchLog, m_receiveIdMap, engLog, sigVars, itVars, rtosVars, netVars,
                   workerVars>>

\* The Incoming work item runs; the receive thread, if it still waits for
\* this item, resumes.
Net_Incoming ==
    /\ NetHead("Incoming")
    /\ netQ' = Tail(netQ)
    /\ recvPc' = IF recvPc = "wait" /\ Head(netQ).n = handoffs THEN "loop" ELSE recvPc
    /\ UNCHANGED <<appPc, calls, inStop, netPc, m_recvThreadExit, bRecvThreadCreated,
                   exitPosted, mutexOwner, port, timerOn, handoffs, raced, accessLog>>
    /\ UNCHANGED <<m_transport, dispatchLog, m_receiveIdMap, engLog, sigVars, itVars, rtosVars, netVars,
                   workerVars>>

\* RecvThread: while (!m_recvThreadExit), then m_recvTransport.Receive.
Recv_Loop ==
    /\ recvPc = "loop"
    /\ recvPc' = IF m_recvThreadExit THEN "exited" ELSE "receive"
    /\ UNCHANGED <<appPc, calls, inStop, netQ, netPc, m_recvThreadExit,
                   bRecvThreadCreated, exitPosted, mutexOwner, port, timerOn, handoffs,
                   raced, accessLog>>
    /\ UNCHANGED <<m_transport, dispatchLog, m_receiveIdMap, engLog, sigVars, itVars, rtosVars, netVars,
                   workerVars>>

\* Bytes of a frame arrive while Receive waits: an ACK is consumed and
\* Receive returns with an empty payload; a data frame is to be acknowledged.
Recv_FrameArrives(isAck) ==
    /\ recvPc = "receive"
    /\ port = "open"
    /\ handoffs < MaxRecv
    /\ recvPc' = IF isAck THEN "loop" ELSE "gotFrame"
    /\ UNCHANGED <<appPc, calls, inStop, netQ, netPc, m_recvThreadExit,
                   bRecvThreadCreated, exitPosted, mutexOwner, port, timerOn, handoffs,
                   raced, accessLog>>
    /\ UNCHANGED <<m_transport, dispatchLog, m_receiveIdMap, engLog, sigVars, itVars, rtosVars, netVars,
                   workerVars>>

\* Receive returns without a frame.
Recv_Timeout ==
    /\ recvPc = "receive"
    /\ ReceiveBounded(transport)
    /\ recvPc' = "loop"
    /\ UNCHANGED <<appPc, calls, inStop, netQ, netPc, m_recvThreadExit,
                   bRecvThreadCreated, exitPosted, mutexOwner, port, timerOn, handoffs,
                   raced, accessLog>>
    /\ UNCHANGED <<m_transport, dispatchLog, m_receiveIdMap, engLog, sigVars, itVars, rtosVars, netVars,
                   workerVars>>

\* The port was released under a running Receive: the read uses a freed
\* handle, and one of the outcomes is that the thread never returns.
Recv_Fault ==
    /\ recvPc \in {"receive", "gotFrame"}
    /\ raced
    /\ recvPc' = "fault"
    /\ UNCHANGED <<appPc, calls, inStop, netQ, netPc, m_recvThreadExit,
                   bRecvThreadCreated, exitPosted, mutexOwner, port, timerOn, handoffs,
                   raced, accessLog>>
    /\ UNCHANGED <<m_transport, dispatchLog, m_receiveIdMap, engLog, sigVars, itVars, rtosVars, netVars,
                   workerVars>>

\* Receive sends the ACK: m_sendTransport->Send on the receive thread.
Recv_AckBegin ==
    /\ recvPc = "gotFrame"
    /\ HasMutex(transport) => mutexOwner = "none"
    /\ recvPc' = "ack"
    /\ mutexOwner' = IF HasMutex(transport) THEN "recv" ELSE mutexOwner
    /\ UNCHANGED <<appPc, calls, inStop, netQ, netPc, m_recvThreadExit,
                   bRecvThreadCreated, exitPosted, port, timerOn, handoffs, raced,
                   accessLog>>
    /\ UNCHANGED <<m_transport, dispatchLog, m_receiveIdMap, engLog, sigVars, itVars, rtosVars, netVars,
                   workerVars>>

\* The ACK is sent and Receive returns 0; RecvThread tests
\* !error && !arg_data->str().empty() && !m_recvThreadExit.
Recv_AckEnd ==
    /\ recvPc = "ack"
    /\ recvPc' = IF m_recvThreadExit THEN "loop" ELSE "handoff"
    /\ mutexOwner' = IF mutexOwner = "recv" THEN "none" ELSE mutexOwner
    /\ UNCHANGED <<appPc, calls, inStop, netQ, netPc, m_recvThreadExit,
                   bRecvThreadCreated, exitPosted, port, timerOn, handoffs, raced,
                   accessLog>>
    /\ UNCHANGED <<m_transport, dispatchLog, m_receiveIdMap, engLog, sigVars, itVars, rtosVars, netVars,
                   workerVars>>

\* RecvThread: MakeDelegate(this, &Incoming, m_thread, INVOKE_TIMEOUT)
\* .AsyncInvoke(header, arg_data): the item is queued to the network thread
\* and the receive thread waits for it.
Recv_Handoff ==
    /\ recvPc = "handoff"
    /\ handoffs' = handoffs + 1
    /\ netQ' = Enqueue(netQ, WorkItem("Incoming", FALSE, handoffs + 1))
    /\ recvPc' = "wait"
    /\ UNCHANGED <<appPc, calls, inStop, netPc, m_recvThreadExit, bRecvThreadCreated,
                   exitPosted, mutexOwner, port, timerOn, raced, accessLog>>
    /\ UNCHANGED <<m_transport, dispatchLog, m_receiveIdMap, engLog, sigVars, itVars, rtosVars, netVars,
                   workerVars>>

\* The wait for the network thread ends after INVOKE_TIMEOUT.
Recv_HandoffTimeout ==
    /\ recvPc = "wait"
    /\ RecvThread_HandoffWait # WAIT_INFINITE
    /\ recvPc' = "loop"
    /\ UNCHANGED <<appPc, calls, inStop, netQ, netPc, m_recvThreadExit,
                   bRecvThreadCreated, exitPosted, mutexOwner, port, timerOn, handoffs,
                   raced, accessLog>>
    /\ UNCHANGED <<m_transport, dispatchLog, m_receiveIdMap, engLog, sigVars, itVars, rtosVars, netVars,
                   workerVars>>

\* RecvThread has returned; the thread's loop takes the exit message and the
\* thread ends.
Recv_Exit ==
    /\ recvPc = "exited"
    /\ exitPosted
    /\ recvPc' = "dead"
    /\ UNCHANGED <<appPc, calls, inStop, netQ, netPc, m_recvThreadExit,
                   bRecvThreadCreated, exitPosted, mutexOwner, port, timerOn, handoffs,
                   raced, accessLog>>
    /\ UNCHANGED <<m_transport, dispatchLog, m_receiveIdMap, engLog, sigVars, itVars, rtosVars, netVars,
                   workerVars>>

\* ========================================================================
\* Specifications
\* ========================================================================
NextWorker ==
    \/ \E p \in Producers : Logger_Write(p)
    \/ \E p \in Producers, w \in BOOLEAN : Logger_DispatchDelegate(p, w)
    \/ \E p \in Producers, w \in BOOLEAN : Thread_DispatchDelegate(p, w)
    \/ \E p \in Producers : AsyncInvoke_Timeout(p)
    \/ Logger_TimerThreadCheck
    \/ Logger_TimerThreadPush
    \/ Logger_ExitThread
    \/ Logger_ExitThreadJoin
    \/ Thread_ExitThread
    \/ Thread_ExitThreadTake
    \/ WorkerPop
    \/ Logger_Process
    \/ Logger_ProcessJoin
    \/ Thread_Run

InitWorker == WorkerInit /\ NetIdle /\ EngIdle

SpecWorker == InitWorker /\ [][NextWorker]_vars

\* The STM32 receive path: bytes arrive at any time, the receive task reads
\* them one by one.
RingInit == WorkerIdle /\ NetIdle /\ EngIdle

IsrStep == OnRxCplt_Put \/ Put_Store \/ Put_Publish \/ OnRxCplt_Give
IsrFinish == Put_Store \/ Put_Publish \/ OnRxCplt_Give
ReaderStep ==
    \/ ReadByteBlocked_Call
    \/ Get_Check
    \/ Get_Read
    \/ Get_Advance
    \/ ReadByteBlocked_Take

NextRing == IsrStep \/ ReaderStep

SpecRing == RingInit /\ [][NextRing]_vars

\* An interrupt handler that was entered runs to its end, and the receive
\* task keeps calling ReadByteBlocked; no further byte needs to arrive.
SpecRingFair == SpecRing /\ WF_vars(IsrFinish) /\ WF_vars(ReaderStep)

\* Resynchronization: line noise that holds no 0xAA 0x55 pair, then one
\* well-formed frame; the receive thread calls Receive until the stream gives
\* nothing more.
Garbage == {<<>>, <<0>>, <<85>>, <<170>>, <<0, 170>>, <<170, 0>>, <<170, 170>>}

StreamTransports == {"Serial", "Stm32"}

ResyncInit ==
    /\ WorkerIdle
    /\ transport \in StreamTransports
    /\ hasMonitor = TRUE
    /\ m_pending = {}
    /\ m_retryStore = {}
    /\ tx = <<>>
    /\ seqNum = 1
    /\ dispatched = 0
    /\ stat = <<>>
    /\ peerSent = 0
    /\ rx = <<>>
    /\ peerFrame = NoFrame
    /\ lastRecv = NoRecv
    /\ incomingQ = <<>>
    /\ invoked = <<>>

\* The bytes g reach the UART, followed by the frame the peer sends.
PeerSendAfterGarbage(g, id, seq, payload) ==
    LET frame == Transport_Send(transport, NewHeader(id, seq), payload, FALSE, TRUE).wire
    IN  /\ peerSent < MaxPeer
        /\ rx = <<>>
        /\ peerSent' = peerSent + 1
        /\ rx' = g \o frame
        /\ peerFrame' = [id |-> id, seq |-> seq, payload |-> payload, wire |-> g \o frame,
                         corrupted |-> FALSE]
        /\ lastRecv' = NoRecv
        /\ UNCHANGED <<transport, hasMonitor, m_pending, m_retryStore, seqNum, dispatched,
                       tx, incomingQ, invoked, stat>>
        /\ UNCHANGED <<workerVars, engVars>>

NextResync ==
    \/ \E g \in Garbage, id \in {1, 99}, seq \in PeerSeqs, payload \in Payloads \ {<<>>} :
          PeerSendAfterGarbage(g, id, seq, payload)
    \/ RecvThread(TRUE)

SpecResync == ResyncInit /\ [][NextResync]_vars

\* Two waiters on one condition variable, each with its own predicate and a
\* thread that makes that predicate true and calls notify_one.
CvInit ==
    /\ WorkerInit /\ impl = "Thread"
    /\ NetIdle
    /\ m_transport = "none"
    /\ dispatchLog = <<>>
    /\ m_receiveIdMap = NoEndpoints
    /\ engLog = <<>>
    /\ ThreadsIdle
    /\ SigIdle
    /\ ITIdle
    /\ RingIdle
    /\ CtIdle
    /\ cvKind \in CvKinds
    /\ m_sem = 0
    /\ cvLock = "free"
    /\ pred = [w \in Waiters |-> FALSE]
    /\ wPc = [w \in Waiters |-> "idle"]
    /\ wMode \in [Waiters -> {"wait", "wait_for"}]
    /\ wRet = [w \in Waiters |-> "none"]
    /\ nPc = [w \in Waiters |-> "set"]

WaiterStep(w) ==
    \/ Cv_Call(w)
    \/ \E elapsed \in BOOLEAN : Cv_TestPredicate(w, elapsed)
    \/ Cv_Take(w)
    \/ Cv_Relock(w)

NotifierStep(w) == Notifier_SetPredicate(w) \/ Cv_notify_one(w)

NextCv == \E w \in Waiters : WaiterStep(w) \/ Cv_TakeTimeout(w) \/ NotifierStep(w)

SpecCv == CvInit /\ [][NextCv]_vars

\* Every thread is scheduled again and again, and the time of a wait_for
\* does elapse.
SpecCvFair ==
    /\ SpecCv
    /\ \A w \in Waiters :
          WF_vars(WaiterStep(w)) /\ WF_vars(Cv_TakeTimeout(w)) /\ WF_vars(NotifierStep(w))

\* ========================================================================
\* CreateThread called more than once on one thread object.
\* ========================================================================
ThreadKinds == {"FreeRTOS", "ThreadX", "Logger"}
\* CreateThread calls made on the object
MaxCreate == 3
\* items dispatched to the object; item k is the k-th one enqueued
MaxEnqueued == 3

NotCt == <<NotRtos, ringVars, cvVars>>

\* CreateThread creates a worker: the ThreadX class while tx_thread_id is
\* still 0, the Logger while m_thread is null, the FreeRTOS class at every
\* call (its test of IsThreadCreated is commented out).
CreatesWorker(kind, tasks) == IF kind = "FreeRTOS" THEN TRUE ELSE tasks = 0

\* Thread::CreateThread / Logger::CreateThread.  The queue is created by the
\* first call only; every worker created runs Process on the same object.
Ct_CreateThread ==
    /\ ctCalls < MaxCreate
    /\ ctCalls' = ctCalls + 1
    /\ ctTasks' = IF CreatesWorker(ctKind, ctTasks) THEN ctTasks + 1 ELSE ctTasks
    /\ UNCHANGED <<recv2Pc, ctKind, ctQueue, ctRan>>
    /\ UNCHANGED NotCt

\* DispatchDelegate / Logger::Write: one more item in the object's queue.
Ct_DispatchDelegate ==
    /\ ctCalls > 0
    /\ Len(ctQueue) + Len(ctRan) < MaxEnqueued
    /\ ctQueue' = Append(ctQueue, Len(ctQueue) + Len(ctRan) + 1)
    /\ UNCHANGED <<recv2Pc, ctKind, ctCalls, ctTasks, ctRan>>
    /\ UNCHANGED NotCt

\* One pass of worker t through the loop of Run / Process: it receives the
\* item at the head of the object's queue and executes it.
Ct_Run(t) ==
    /\ ctQueue # <<>>
    /\ ctRan' = Append(ctRan, [item |-> Head(ctQueue), worker |-> t])
    /\ ctQueue' = Tail(ctQueue)
    /\ UNCHANGED <<recv2Pc, ctKind, ctCalls, ctTasks>>
    /\ UNCHANGED NotCt

\* A thread object of one of the three classes, CreateThread not yet called.
CreateInit ==
    /\ WorkerInit /\ impl = "Thread"
    /\ NetIdle
    /\ m_transport = "none"
    /\ dispatchLog = <<>>
    /\ m_receiveIdMap = NoEndpoints
    /\ engLog = <<>>
    /\ ThreadsIdle
    /\ SigIdle
    /\ ITIdle
    /\ RingIdle
    /\ CvIdle
    /\ recv2Pc = "unstarted"
    /\ ctKind \in ThreadKinds
    /\ ctCalls = 0
    /\ ctTasks = 0
    /\ ctQueue = <<>>
    /\ ctRan = <<>>

NextCreate ==
    \/ Ct_CreateThread
    \/ Ct_DispatchDelegate
    \/ \E t \in 1..ctTasks : Ct_Run(t)

SpecCreate == CreateInit /\ [][NextCreate]_vars

\* The hand-over from RecvThread to Incoming: an endpoint is registered for
\* id 1, the peer sends frames with and without payload, ACKs among them, and
\* Stop may raise the exit flag at any time.
ForwardInit ==
    /\ WorkerIdle
    /\ transport \in Transports
    /\ hasMonitor = TRUE
    /\ m_pending = {}
    /\ m_retryStore = {}
    /\ tx = <<>>
    /\ seqNum = 1
    /\ dispatched = 0
    /\ stat = <<>>
    /\ peerSent = 0
    /\ rx = <<>>
    /\ peerFrame = NoFrame
    /\ lastRecv = NoRecv
    /\ incomingQ = <<>>
    /\ invoked = <<>>

NextForward ==
    \/ \E id \in PeerIds, payload \in Payloads :
          PeerSendUpTo(MaxRecv, id, peerSent + 1, payload)
    \/ \E i \in 1..(HEADER_SIZE + MaxPayload + 2) : Corrupt(i, 255)
    \/ RecvThread(TRUE)
    \/ Incoming
    \/ Stop_RaiseExitFlag

SpecForward == ForwardInit /\ [][NextForward]_vars

\* The FreeRTOS / ThreadX Thread alone: producers, the worker, ExitThread.
ThreadWorkerInit == InitWorker /\ impl = "Thread"

\* The worker task: xQueueReceive and the switch of Thread::Run.
ThreadWorkerStep == WorkerPop \/ Thread_Run

NextThreadWorker ==
    \/ \E p \in Producers, w \in BOOLEAN : Thread_DispatchDelegate(p, w)
    \/ \E p \in Producers : AsyncInvoke_Timeout(p)
    \/ Thread_ExitThread
    \/ Thread_ExitThreadTake
    \/ ThreadWorkerStep

SpecThreadWorker == ThreadWorkerInit /\ [][NextThreadWorker]_vars

\* The worker task and the caller of ExitThread are always scheduled again.
SpecThreadWorkerFair ==
    SpecThreadWorker /\ WF_vars(ThreadWorkerStep) /\ WF_vars(Thread_ExitThreadTake)

\* Framing: a peer sends frames over a line that may damage them; the receive
\* thread decodes them.  One frame may already be awaiting its ACK.
FramingInit ==
    /\ WorkerIdle
    /\ transport \in Transports
    /\ hasMonitor \in BOOLEAN
    /\ \E sentOne \in BOOLEAN :
         /\ sentOne => hasMonitor
         /\ m_pending = IF sentOne THEN FirstSent(transport).pending ELSE {}
         /\ m_retryStore = IF sentOne THEN FirstSent(transport).store ELSE {}
         /\ tx = IF sentOne THEN <<FirstSent(transport).wire>> ELSE <<>>
         /\ seqNum = IF sentOne THEN 2 ELSE 1
         /\ dispatched = IF sentOne THEN 1 ELSE 0
         /\ stat = IF sentOne THEN <<NewStat>> ELSE <<>>
    /\ peerSent = 0
    /\ rx = <<>>
    /\ peerFrame = NoFrame
    /\ lastRecv = NoRecv
    /\ incomingQ = <<>>
    /\ invoked = <<>>

Next ==
    \/ \E id \in PeerIds, seq \in PeerSeqs, payload \in Payloads : PeerSend(id, seq, payload)
    \/ \E i \in 1..(HEADER_SIZE + MaxPayload + 2), mask \in {1, 255} : Corrupt(i, mask)
    \/ \E ok \in BOOLEAN : RecvThread(ok)
    \/ Incoming

Spec == FramingInit /\ [][Next]_vars

\* The Dispatcher alone: calls with or without a transport set, starting
\* anywhere in the life of the sequence counter.
SeqStarts == {1, 65534, 65535}

DispatchInit ==
    /\ WorkerInit /\ impl = "Logger"
    /\ transport = "Serial"
    /\ hasMonitor = FALSE
    /\ m_pending = {}
    /\ m_retryStore = {}
    /\ seqNum \in SeqStarts
    /\ dispatched = 0
    /\ peerSent = 0
    /\ tx = <<>>
    /\ rx = <<>>
    /\ peerFrame = NoFrame
    /\ lastRecv = NoRecv
    /\ incomingQ = <<>>
    /\ invoked = <<>>
    /\ stat = <<>>
    /\ m_transport \in {"none", "port"}
    /\ dispatchLog = <<>>
    /\ m_receiveIdMap = NoEndpoints
    /\ engLog = <<>>
    /\ ThreadsIdle
    /\ SigIdle
    /\ ITIdle
    /\ RtosIdle

NextDispatch ==
    \/ \E id \in {1, 99}, payload \in Payloads, ok \in BOOLEAN :
          Dispatcher_Dispatch(id, payload, ok)
    \/ \E t \in {"none", "port"} : SetTransport(t)

SpecDispatch == DispatchInit /\ [][NextDispatch]_vars

\* The endpoint registry and the receive path: the application registers
\* endpoints while the peer's frames arrive over an undisturbed line.  The
\* k-th frame carries sequence number k and k payload bytes.
EngineInit ==
    /\ WorkerInit /\ impl = "Logger"
    /\ NetIdle
    /\ m_transport = "none"
    /\ dispatchLog = <<>>
    /\ m_receiveIdMap = NoEndpoints
    /\ engLog = <<>>
    /\ ThreadsIdle
    /\ SigIdle
    /\ ITIdle
    /\ RtosIdle

\* The calls the application makes: endpoints for id 1, a null endpoint, an
\* endpoint under the ACK id.
Registrations == {<<1, "A">>, <<1, "B">>, <<1, "null">>, <<ACK_REMOTE_ID, "A">>}

NextEngine ==
    \/ \E r \in Registrations : RegisterEndpoint(r[1], r[2])
    \/ \E id \in PeerIds : PeerSendUpTo(MaxRecv, id, peerSent + 1, Pattern(peerSent + 1))
    \/ RecvThread(TRUE)
    \/ Incoming

SpecEngine == EngineInit /\ [][NextEngine]_vars

\* The engine's threads: the application calls Initialize, Start,
\* RegisterEndpoint, Stop and the send functions from its own thread while
\* frames may arrive.
ThreadsInit ==
    /\ WorkerInit /\ impl = "Logger"
    /\ transport \in Transports
    /\ hasMonitor = TRUE
    /\ m_pending = {}
    /\ m_retryStore = {}
    /\ seqNum = 1
    /\ dispatched = 0
    /\ peerSent = 0
    /\ tx = <<>>
    /\ rx = <<>>
    /\ peerFrame = NoFrame
    /\ lastRecv = NoRecv
    /\ incomingQ = <<>>
    /\ invoked = <<>>
    /\ stat = <<>>
    /\ m_transport = "none"
    /\ dispatchLog = <<>>
    /\ m_receiveIdMap = NoEndpoints
    /\ engLog = <<>>
    /\ ThreadsIdle
    /\ SigIdle
    /\ ITIdle
    /\ RtosIdle

\* The steps the scheduler owes each thread.  New calls of the application
\* and the arrival of frames are not among them.
AppStep ==
    \/ Stop_CloseBegin
    \/ Stop_CloseEnd
    \/ Stop_SetExit
    \/ Stop_ExitThread
    \/ Stop_ExitThreadJoin
    \/ Stop_Marshal

NetStep ==
    \/ \E ok \in BOOLEAN : Net_Initialize(ok)
    \/ Net_Start
    \/ Net_Stop
    \/ Net_RegisterEndpoint
    \/ Net_SendBegin
    \/ Net_SendEnd
    \/ Net_Incoming

RecvStep ==
    \/ Recv_Loop
    \/ Recv_Timeout
    \/ Recv_AckBegin
    \/ Recv_AckEnd
    \/ Recv_Handoff
    \/ Recv_HandoffTimeout
    \/ Recv_Exit

NextThreads ==
    \/ App_Initialize
    \/ App_Start
    \/ App_RegisterEndpoint
    \/ App_Send
    \/ App_Stop
    \/ AppStep
    \/ NetStep
    \/ RecvStep
    \/ \E isAck \in BOOLEAN : Recv_FrameArrives(isAck)
    \/ Recv_Fault

SpecThreads == ThreadsInit /\ [][NextThreads]_vars

\* Two engines in one process: the first engine's threads as above, and a
\* second engine whose Start may be called at any time.
NextInstances == NextThreads \/ Net2_Start

SpecInstances == ThreadsInit /\ [][NextInstances]_vars

\* Every thread keeps running.
SpecThreadsFair ==
    SpecThreads /\ WF_vars(AppStep) /\ WF_vars(NetStep) /\ WF_vars(RecvStep)

\* Only the receive thread is sure to run: the network thread may stall.
SpecRecvFair == SpecThreads /\ WF_vars(RecvStep)

\* A signal, its subscribers and its emissions.
SignalInit ==
    /\ WorkerInit /\ impl = "Logger"
    /\ NetIdle
    /\ m_transport = "none"
    /\ dispatchLog = <<>>
    /\ m_receiveIdMap = NoEndpoints
    /\ engLog = <<>>
    /\ ThreadsIdle
    /\ SigIdle
    /\ ITIdle
    /\ RtosIdle

NextSignal ==
    \/ \E d \in Delegates : SignalSafe_Connect(d)
    \/ \E h \in Handles : Connection_Disconnect(h)
    \/ Signal_Destroy
    \/ Emit_Begin
    \/ \E r \in {0} \cup Handles : Emit_Step(r)
    \/ Emit_End

SpecSignal == SignalInit /\ [][NextSignal]_vars

\* The Logger integration tests: the Logger is constructed (its thread and its
\* timer thread run), no callback is registered, the first test is about to
\* start.
LoggerITInit ==
    /\ WorkerInit /\ impl = "Logger"
    /\ NetIdle
    /\ EngIdle

TestStep ==
    \/ Test_SetCallback
    \/ Test_Write
    \/ \E timedOut \in BOOLEAN : Test_WaitForSignal(timedOut)
    \/ Test_Check
    \/ Test_AsyncInvoke
    \/ \E timedOut \in BOOLEAN : Test_AsyncReturn(timedOut)
    \/ Test_ExitThread

TimerStep == TimerThread_Lock \/ TimerThread_Push

LoggerStep ==
    \/ Process_Lock
    \/ Process_Pop
    \/ \E fileOk \in BOOLEAN : Process_Switch(fileOk)
    \/ LoggerStatusCb_PushBack
    \/ LoggerStatusCb_SetSignal

NextLoggerIT == TestStep \/ TimerStep \/ LoggerStep

SpecLoggerIT == LoggerITInit /\ [][NextLoggerIT]_vars

\* Reliability: frames dispatched through the reliable transport over the
\* serial port transport NetworkEngine wires to its monitor; the peer may or may
\* not acknowledge the copies it receives.
RelInit ==
    /\ WorkerIdle
    /\ transport = "Serial"
    /\ hasMonitor = TRUE
    /\ m_pending = {}
    /\ m_retryStore = {}
    /\ seqNum = 1
    /\ dispatched = 0
    /\ peerSent = 0
    /\ tx = <<>>
    /\ rx = <<>>
    /\ peerFrame = NoFrame
    /\ lastRecv = NoRecv
    /\ incomingQ = <<>>
    /\ invoked = <<>>
    /\ stat = <<>>

NextRel ==
    \/ \E ok \in BOOLEAN : Dispatch(1, <<170>>, ok)
    \/ Timeout(TRUE)
    \/ \E s \in 1..MaxFrames : PeerAck(s)
    \/ \E ok \in BOOLEAN : RecvThread(ok)

SpecRel == RelInit /\ [][NextRel]_vars

\* Sends over each of the three transports, with the monitor set and a
\* physical write that may fail.
SendInit ==
    /\ WorkerIdle
    /\ transport \in Transports
    /\ hasMonitor = TRUE
    /\ m_pending = {}
    /\ m_retryStore = {}
    /\ seqNum = 1
    /\ dispatched = 0
    /\ peerSent = 0
    /\ tx = <<>>
    /\ rx = <<>>
    /\ peerFrame = NoFrame
    /\ lastRecv = NoRecv
    /\ incomingQ = <<>>
    /\ invoked = <<>>
    /\ stat = <<>>

NextSend ==
    \/ \E payload \in Payloads, ok \in BOOLEAN : Dispatch(1, payload, ok)
    \/ Timeout(TRUE)
    \/ \E s \in 1..MaxFrames : PeerAck(s)
    \/ RecvThread(TRUE)

SpecSend == SendInit /\ [][NextSend]_vars

\* The timer keeps expiring while the engine runs.
SpecRelFair == SpecRel /\ WF_vars(Timeout(TRUE))

\* The transport monitor alone: frames go to the monitored transport without
\* the reliable wrapper, ACKs arrive through the receive thread, the timer
\* drives TransportMonitor::Process.
NextMonitor ==
    \/ \E id \in {1, 2} : Dispatch_Raw(id, <<170>>)
    \/ Timeout(TRUE)
    \/ \E s \in 1..MaxMonSends : PeerAck(s)
    \/ RecvThread(TRUE)

SpecMonitor == RelInit /\ [][NextMonitor]_vars

\* Send on the sending thread against Receive on the receive thread, for each
\* transport, with the monitor set and the timer running.
AckRaceInit ==
    /\ WorkerIdle
    /\ transport \in Transports
    /\ hasMonitor = TRUE
    /\ m_pending = {}
    /\ m_retryStore = {}
    /\ seqNum = 1
    /\ dispatched = 0
    /\ peerSent = 0
    /\ tx = <<>>
    /\ rx = <<>>
    /\ peerFrame = NoFrame
    /\ lastRecv = NoRecv
    /\ incomingQ = <<>>
    /\ invoked = <<>>
    /\ stat = <<>>

NextAckRace ==
    \/ Send_Begin(1, <<170>>)
    \/ Send_End(1, <<170>>)
    \/ \E s \in DOMAIN stat : PeerAck(s)
    \/ RecvThread(TRUE)
    \/ Timeout(TRUE)

SpecAckRace == AckRaceInit /\ [][NextAckRace]_vars

\* ------------------------------------------------------------------------
\* Properties of the worker thread
\* ------------------------------------------------------------------------
\* The k-th item (in submission order) of source s that entered the queue.
NthEnqueued(s, i) ==
    CHOOSE k \in Enqueued(s) : Cardinality({j \in Enqueued(s) : j < k}) = i - 1

InHand(s, k) == wpc = "dispatch" /\ Item(cur) = <<s, k>>

\* The exit message was enqueued and has left the queue.
ExitDequeued ==
    /\ exitPc \in {"joining", "done"}
    /\ \A i \in 1..Len(m_queue) : m_queue[i] # ExitMsg

\* C1: the items one source thread enqueued onto the worker are executed in
\* exactly the order of their submission, none skipped and none repeated,
\* whatever the other producers (second producer, timer thread) enqueue
\* in between.
C1_FifoPerSource ==
    \A s \in Sources :
        /\ Len(execLog[s]) <= Cardinality(Enqueued(s))
        /\ \A i \in 1..Len(execLog[s]) : execLog[s][i] = NthEnqueued(s, i)

C1_Witness ==
    /\ execLog["p1"] = <<1, 2>>
    /\ execLog["p2"] = <<1>>

\* C2: a blocking-with-timeout invocation whose caller timed out is not
\* retracted: while the worker runs its item is still queued or in the
\* worker's hands until it has been executed, and it is executed exactly
\* once, never twice.
C2_TimedOutRunsOnce ==
    \A p \in Producers : \A k \in 1..sent[p] :
        /\ result[<<p, k>>] = "timedout" =>
              /\ ExecCount(p, k) = 0
              /\ wpc \notin {"join", "done"} => InQueue(p, k) \/ InHand(p, k)
        /\ result[<<p, k>>] = "late" =>
              /\ ExecCount(p, k) = 1
              /\ ~InQueue(p, k)
              /\ ~InHand(p, k)

C2_Witness ==
    /\ result[<<"p1", 1>>] = "late"
    /\ ExecCount("p1", 1) = 1

\* C3: once the exit message has been dequeued the worker holds it and takes
\* nothing further from the queue: every item enqueued ahead of the exit
\* message has been executed, no item enqueued behind it is ever executed.
C3_ExitEndsLoop ==
    ExitDequeued =>
        /\ cur = ExitMsg
        /\ wpc \in {"dispatch", "join", "done"}
        /\ \A s \in Sources : \A k \in Enqueued(s) :
              /\ k <= sentAtExit[s] => Executed(s, k)
              /\ k > sentAtExit[s] => ~Executed(s, k) /\ (m_thread => InQueue(s, k))

C3_Witness ==
    /\ wpc = "done"
    /\ sentAtExit["p1"] = 1
    /\ execLog["p1"] = <<1>>
    /\ 2 \in Enqueued("p1")
    /\ InQueue("p1", 2)

\* ------------------------------------------------------------------------
\* Properties of the reliable transport
\* ------------------------------------------------------------------------
Dispatched(s) == s \in DOMAIN stat
Pending(s) == Monitor_Has(m_pending, s)

\* The copies of frame s on the wire, in the order written.
CopiesOf(s) ==
    {i \in 1..Len(tx) :
        LET h == ParseHeader(SubSeq(tx[i], 1, HEADER_SIZE))
        IN  h.seq = s /\ h.id # ACK_REMOTE_ID}

RetryBookkeeping(s) ==
    /\ stat[s].retx <= MAX_RETRIES
    /\ stat[s].fails <= 1
    /\ stat[s].timeouts = stat[s].retx + stat[s].fails
    /\ \A i, j \in CopiesOf(s) : tx[i] = tx[j]
    /\ stat[s].fails = 1 =>
          /\ stat[s].retx = MAX_RETRIES
          /\ stat[s].succ = 0
          /\ ~Pending(s)
          /\ ~IsStored(m_retryStore, s)

\* C4: with a retry limit of 3, a frame that is never acknowledged is resent
\* exactly 3 times, once per monitor timeout and each time with the same
\* bytes (so the same sequence number), then one terminal failure is reported
\* and nothing more happens for that sequence number: the counters never
\* exceed these values, and every dispatched frame reaches either an ACK or
\* the state "3 resends, 1 failure".
C4_ThreeRetriesThenOneFailure ==
    /\ [](\A s \in DOMAIN stat : RetryBookkeeping(s))
    /\ \A s \in 1..MaxFrames :
          Dispatched(s) ~>
             (/\ Dispatched(s)
              /\ \/ stat[s].ackAt # -1
                 \/ stat[s].fails = 1 /\ stat[s].retx = MAX_RETRIES)

C4_Witness ==
    /\ Dispatched(1)
    /\ stat[1].retx = 3 /\ stat[1].timeouts = 4 /\ stat[1].fails = 1 /\ stat[1].acks = 0
    /\ Cardinality(CopiesOf(1)) = 4
    /\ m_pending = {}

\* C5: an ACK received for sequence number s while its frame is still
\* remembered for retry stops the retries: the number of resends stays what
\* it was when the ACK arrived and no failure is reported for s.
C5_AckCancelsRetry ==
    \A s \in DOMAIN stat :
        stat[s].ackAt # -1 =>
            /\ stat[s].retx = stat[s].ackAt
            /\ stat[s].fails = 0
            /\ ~Pending(s)
            /\ ~IsStored(m_retryStore, s)

C5_Witness ==
    /\ Dispatched(1)
    /\ stat[1].ackAt = 2 /\ stat[1].retx = 2 /\ stat[1].fails = 0 /\ stat[1].succ = 1
    /\ m_pending = {}

Resolved(s) == Dispatched(s) /\ (stat[s].succ = 1 \/ stat[s].fails = 1)

C7_AckNeverAcked ==
    /\ \A r \in m_pending : r.id # ACK_REMOTE_ID
    /\ lastRecv.ackSent => ~lastRecv.pendingChanged
    /\ (lastRecv.called /\ lastRecv.err = 0 /\ lastRecv.hdr.id = ACK_REMOTE_ID)
          => ~lastRecv.ackSent

C7_Witness ==
    /\ lastRecv.ackSent
    /\ hasMonitor
    /\ Len(tx) = 2
    /\ ParseHeader(SubSeq(tx[2], 1, HEADER_SIZE)).id = ACK_REMOTE_ID
    /\ m_pending = {[seq |-> 1, id |-> 1, age |-> 0]}

\* C8: a frame Receive rejects for its marker (which the serial sync loop
\* reports by finding no frame start), for a declared length above the
\* buffer size or for its CRC has no effect: Receive returns an error, sends
\* no ACK, leaves the pending table alone, and the frame is not handed to
\* Incoming, so no endpoint runs for it.
C8_RejectedFrameHasNoEffect ==
    (lastRecv.called /\ lastRecv.reason \in {"sync", "marker", "length", "crc"}) =>
        /\ lastRecv.err # 0
        /\ ~lastRecv.ackSent
        /\ ~lastRecv.pendingChanged
        /\ ~lastRecv.forwarded

C8_Witness ==
    /\ lastRecv.called
    /\ lastRecv.reason = "crc"
    /\ lastRecv.payload # <<>>
    /\ m_pending # {}
    /\ incomingQ = <<>> /\ invoked = <<>> /\ Len(tx) = 1

\* C9: Stm32UartTransport rejects every frame whose CRC field differs from
\* the CRC of its header and payload: error returned, no ACK sent, no pending
\* record removed, frame not delivered.
C9_Stm32VerifiesCrc ==
    (transport = "Stm32" /\ lastRecv.called /\ ~lastRecv.crcOk) =>
        /\ lastRecv.err # 0
        /\ ~lastRecv.ackSent
        /\ ~lastRecv.pendingChanged
        /\ ~lastRecv.forwarded

\* C10: round trip: the bytes a transport's Send produces for a frame, fed
\* unchanged into the same transport's Receive, are accepted and give back
\* the frame's id, sequence number, length and payload.
C10_RoundTrip ==
    (lastRecv.called /\ lastRecv.clean) =>
        /\ lastRecv.err = 0
        /\ lastRecv.hdr.id = peerFrame.id
        /\ lastRecv.hdr.seq = peerFrame.seq
        /\ lastRecv.hdr.len = Len(peerFrame.payload)
        /\ lastRecv.payload = peerFrame.payload

C10_Witness ==
    /\ lastRecv.called /\ lastRecv.clean /\ lastRecv.err = 0
    /\ transport = "Serial"
    /\ lastRecv.hdr.id = 99 /\ lastRecv.hdr.seq = 2
    /\ lastRecv.payload = <<170, 85>>

\* The wire format: four big-endian 16-bit header fields starting with the
\* marker, then exactly the declared number of payload bytes, then the two
\* bytes of the CRC-16 of all that precedes them.
WireFormat(w) ==
    /\ Len(w) >= HEADER_SIZE + 2
    /\ LET h == ParseHeader(SubSeq(w, 1, HEADER_SIZE))
           body == SubSeq(w, 1, Len(w) - 2)
       IN  /\ h.marker = MARKER
           /\ Len(w) = HEADER_SIZE + h.len + 2
           /\ SubSeq(w, Len(w) - 1, Len(w)) = Store16(Crc16CalcBlock(body, 65535))

\* C11: every frame a transport puts on the wire (the frames this side wrote
\* and the frame the peer's Send produced) has the wire format: 8-byte
\* big-endian header, length payload bytes, 2-byte CRC-16 over both.
C11_EveryFrameHasWireFormat ==
    /\ \A i \in 1..Len(tx) : WireFormat(tx[i])
    /\ peerFrame.wire # <<>> => WireFormat(peerFrame.wire)

\* C12: successive frames built by one Dispatcher carry sequence numbers that
\* go up by one modulo 65536 (65535 is followed by 0), whether or not the
\* send succeeded, so the calls made so far all have different numbers; a
\* frame that was written carries the number of its call.
C12_SeqNumIncrementsModulo ==
    /\ \A i \in 1..Len(dispatchLog) :
          /\ dispatchLog[i].seq \in 0..65535
          /\ dispatchLog[i].wire # <<>> =>
                Load16(dispatchLog[i].wire[1][5], dispatchLog[i].wire[1][6])
                    = dispatchLog[i].seq
    /\ \A i \in 1..(Len(dispatchLog) - 1) :
          dispatchLog[i + 1].seq = (dispatchLog[i].seq + 1) % 65536
    /\ \A i, j \in 1..Len(dispatchLog) :
          i # j => dispatchLog[i].seq # dispatchLog[j].seq

C12_Witness ==
    /\ Len(dispatchLog) = 3
    /\ dispatchLog[1].seq = 65534 /\ dispatchLog[1].ret = 0
    /\ dispatchLog[2].seq = 65535 /\ dispatchLog[2].ret = -1
    /\ dispatchLog[3].seq = 0 /\ dispatchLog[3].ret = 0

\* C13: a Dispatch call with a transport set makes exactly one Send and
\* returns its status; without a transport it makes none, writes nothing and
\* returns a failure; a failed send is never repeated, so the wire holds one
\* frame per successful call and nothing else.
C13_OneSendPerDispatch ==
    /\ \A i \in 1..Len(dispatchLog) :
          LET e == dispatchLog[i]
          IN  IF e.configured
              THEN /\ e.sends = 1
                   /\ e.ret = (IF e.ok THEN 0 ELSE -1)
                   /\ (e.wire # <<>>) = e.ok
              ELSE /\ e.sends = 0
                   /\ e.ret # 0
                   /\ e.wire = <<>>
    /\ Len(tx) = Cardinality({i \in 1..Len(dispatchLog) : dispatchLog[i].ret = 0})

C13_Witness ==
    /\ Len(dispatchLog) = 3
    /\ dispatchLog[1].configured /\ ~dispatchLog[1].ok /\ dispatchLog[1].ret = -1
    /\ ~dispatchLog[2].configured /\ dispatchLog[2].ret = -1
    /\ dispatchLog[3].configured /\ dispatchLog[3].ret = 0
    /\ Len(tx) = 1

\* The endpoint registered for id when entry i of engLog was made: the last
\* RegisterEndpoint for id before it.
RegisteredAt(i, id) ==
    LET regs == {k \in 1..(i - 1) : engLog[k].kind = "register" /\ engLog[k].id = id}
    IN  IF regs = {} THEN "absent"
        ELSE engLog[CHOOSE k \in regs : \A m \in regs : m <= k].ep

IncomingAt(i) == i \in 1..Len(engLog) /\ engLog[i].kind = "incoming"

\* C14: a received frame whose id has no registered endpoint invokes no
\* target and raises no error or failure event, and every frame handled
\* after it is still delivered to the endpoint registered for its id.
C14_UnknownIdSilentlyDropped ==
    \A i \in 1..Len(engLog) :
        (IncomingAt(i) /\ RegisteredAt(i, engLog[i].id) = "absent") =>
            /\ engLog[i].ep = "none"
            /\ ~engLog[i].error
            /\ stat = <<>>
            /\ \A j \in (i + 1)..Len(engLog) :
                  (/\ IncomingAt(j)
                   /\ engLog[j].id # ACK_REMOTE_ID
                   /\ RegisteredAt(j, engLog[j].id) \in Endpoints) =>
                      /\ engLog[j].ep = RegisteredAt(j, engLog[j].id)
                      /\ \E k \in 1..Len(invoked) :
                            /\ invoked[k].id = engLog[j].id
                            /\ invoked[k].payload = engLog[j].payload

C14_Witness ==
    /\ Len(engLog) = 3
    /\ engLog[1].kind = "register" /\ engLog[1].id = 1 /\ engLog[1].ep = "A"
    /\ engLog[2].kind = "incoming" /\ engLog[2].id = 99 /\ engLog[2].ep = "none"
    /\ engLog[3].kind = "incoming" /\ engLog[3].id = 1 /\ engLog[3].ep = "A"
    /\ invoked = <<[id |-> 1, payload |-> Pattern(2), ep |-> "A"]>>

\* The invocations the Incoming calls logged so far must have made.
ExpectedInvocations ==
    LET hits == SelectSeq(engLog, LAMBDA e : e.kind = "incoming" /\ e.ep # "none")
    IN  [k \in 1..Len(hits) |->
            [id |-> hits[k].id, payload |-> Pattern(hits[k].seq), ep |-> hits[k].ep]]

\* C15: Incoming invokes an endpoint exactly when the frame's id is not the
\* ACK id and the last RegisterEndpoint for that id gave a non-null endpoint;
\* it invokes that endpoint, once, with the payload the frame was sent with.
\* A frame with the ACK id invokes nothing even when an endpoint is
\* registered under the ACK id.
C15_IncomingInvokesRegisteredEndpoint ==
    /\ \A i \in 1..Len(engLog) :
          IncomingAt(i) =>
              engLog[i].ep =
                  (IF /\ engLog[i].id # ACK_REMOTE_ID
                      /\ RegisteredAt(i, engLog[i].id) \in Endpoints
                   THEN RegisteredAt(i, engLog[i].id)
                   ELSE "none")
    /\ invoked = ExpectedInvocations

C15_Witness ==
    /\ Len(engLog) = 4
    /\ engLog[1].kind = "register" /\ engLog[1].id = ACK_REMOTE_ID /\ engLog[1].ep = "A"
    /\ engLog[2].kind = "incoming" /\ engLog[2].id = ACK_REMOTE_ID /\ engLog[2].ep = "none"
    /\ engLog[3].kind = "register" /\ engLog[3].id = 1
    /\ engLog[4].kind = "incoming" /\ engLog[4].id = 1 /\ engLog[4].ep = engLog[3].ep
    /\ invoked = <<[id |-> 1, payload |-> Pattern(2), ep |-> engLog[3].ep]>>
    /\ engLog[3].ep \in Endpoints

ApiFunctions == {"Initialize", "Start", "Stop", "RegisterEndpoint"}

\* C16: every access to engine-owned state made by Initialize, Start, Stop
\* and RegisterEndpoint is made on the network thread.
C16_EngineStateOnNetworkThread ==
    \A a \in accessLog : a.fn \in ApiFunctions => a.thread = "net"

\* C17: no thread is inside a Send, Receive or Close of a transport object
\* while another thread is inside a call on the same object.
C17_SingleThreadInTransport ==
    \A a, b \in Threads : a # b => InsideOf(a) \cap InsideOf(b) = {}

\* C18: a Stop called from the application thread always returns, whatever
\* the transport: the receive thread leaves Receive, sees the exit flag and
\* ends, and the marshaled Stop completes.
C18_StopTerminates == inStop ~> ~inStop

\* C19: the receive thread never waits forever for the network thread to
\* take a frame: the wait ends and the thread is back at the top of its loop.
C19_HandoffBounded == (recvPc = "wait") ~> (recvPc = "loop")

C19_Witness ==
    /\ recvPc = "loop"
    /\ handoffs >= 1
    /\ \E i \in 1..Len(netQ) : netQ[i].fn = "Incoming" /\ netQ[i].n = handoffs

Count(seq, d) == Cardinality({i \in 1..Len(seq) : seq[i] = d})
Fired(d) == Cardinality({i \in 1..Len(firedLog) : firedLog[i].d = d})

\* C20: releasing a Connection always unregisters its subscriber: the list
\* holds, for every delegate, as many entries as there are connected handles,
\* at any moment, also when the release came from inside a callback of a
\* running emission.  An emission invokes only delegates registered at that
\* moment, the emitting thread never blocks on its own mutex, and a finished
\* emission has invoked once every subscriber that stayed connected through
\* it and none more often than it was connected at the start.
C20_ReleaseUnregisters ==
    /\ ~sigStuck
    /\ signalAlive =>
          \A d \in Delegates : Count(m_delegates, d) = Cardinality(Connected(d))
    /\ \A i \in 1..Len(firedLog) : firedLog[i].registered
    /\ \A d \in Delegates :
          /\ Fired(d) <= Cardinality({h \in atStart : conn[h].d = d})
          /\ (scan = 0 /\ signalAlive) =>
                Fired(d) >= Cardinality({h \in atStart : h \in Connected(d)})

C20_Witness ==
    /\ emitted = 2
    /\ scan = 0
    /\ \E h, k \in Handles :
          /\ conn[h].st = "released" /\ conn[h].via = "callback"
          /\ conn[k].st = "connected" /\ conn[k].d # conn[h].d
          /\ firedLog = <<[d |-> conn[k].d, registered |-> TRUE]>>

C22_MonitorBySeq ==
    [][LET Seqs(P) == {r.seq : r \in P}
           gone == Seqs(m_pending) \ Seqs(m_pending')
           tick == rx' = rx /\ seqNum' = seqNum
           Due(s) == \E r \in m_pending :
                        r.seq = s /\ r.age + TIMER_PERIOD > RECV_TIMEOUT
       IN  /\ \A s \in gone :
                 \/ stat'[s].succ = stat[s].succ + 1
                 \/ stat'[s].timeouts = stat[s].timeouts + 1
           /\ \A s \in DOMAIN stat :
                 stat'[s].succ # stat[s].succ =>
                     m_pending' = {r \in m_pending : r.seq # s}
           /\ tick =>
                 /\ tx' = tx
                 /\ \A s \in DOMAIN stat :
                       stat'[s].timeouts - stat[s].timeouts = (IF Due(s) THEN 1 ELSE 0)
                 /\ \A r \in m_pending : ~Due(r.seq) =>
                       \E q \in m_pending' : q.seq = r.seq /\ q.id = r.id
      ]_vars

\* Three frames went to the same destination: the first timed out, the
\* second was acknowledged, the third, younger, is still pending.
C22_Witness ==
    /\ DOMAIN stat = {1, 2, 3}
    /\ stat[1].timeouts = 1 /\ stat[1].succ = 0
    /\ stat[2].succ = 1 /\ stat[2].timeouts = 0
    /\ \E r \in m_pending : r.seq = 3 /\ r.id = 1 /\ r.age > 0
    /\ \A i \in 1..Len(tx) : ParseHeader(SubSeq(tx[i], 1, HEADER_SIZE)).id = 1

\* What the caller of an invocation has in hand: a fire-and-forget call has
\* returned without a status, a blocking call is still blocked, or it has
\* returned a value or an empty result.
CallerOutcome(r) ==
    CASE r \in {"queued", "done", "dropped"} -> "returned"
      [] r \in {"waiting", "droppedWaiting"} -> "blocked"
      [] r = "completed" -> "value"
      [] r \in {"timedout", "late", "droppedTimedout"} -> "empty"
      [] OTHER -> "none"

\* C23: an item that could not be enqueued because the queue stayed full is
\* never executed, and its caller is told of the failure: the caller is
\* still inside the call or has been handed a failure (an empty result); it
\* has not returned as it does after a successful enqueue.
C23_QueueFullReported ==
    \A p \in Producers : \A k \in 1..sent[p] :
        result[<<p, k>>] \in DroppedStates =>
            /\ ~Executed(p, k)
            /\ ~InQueue(p, k)
            /\ CallerOutcome(result[<<p, k>>]) \in {"blocked", "empty"}

\* The part of C23 that the code keeps: an item that could not be enqueued is
\* never executed, not even after the worker has drained its queue.
C23_DroppedNeverRuns ==
    \A p \in Producers : \A k \in 1..sent[p] :
        result[<<p, k>>] \in DroppedStates => ~Executed(p, k) /\ ~InQueue(p, k)

\* C24: a blocking AsyncInvoke returns a value only when the target has run
\* to completion on the Logger thread, exactly once, and the value is the one
\* that run returned; it returns empty only when the target had not completed
\* at the moment the wait time elapsed.  No target runs twice.
C24_AsyncInvokeResult ==
    [][\A i \in AsyncSteps :
          LET before == asyncCalls[i]
              after == asyncCalls'[i]
          IN  /\ after.runs <= 1
              /\ (before.st # "returned" /\ after.st = "returned") =>
                    /\ before.runs = 1
                    /\ after.got \in {"true", "false"}
                    /\ after.got = before.ret
                    /\ [op |-> TestProgram[i].arg, via |-> "delegate", thread |-> "Logger"]
                          \in logDataLog
              /\ (before.st # "timedout" /\ after.st = "timedout") =>
                    /\ before.runs = 0
                    /\ after.got = "empty"
              /\ before.got # "none" => after.got = before.got
      ]_vars

\* The Flush test got the value false that LogData::Flush returned, and a
\* call of the FlushTime test returned empty and its target ran afterwards.
C24_Witness ==
    /\ asyncCalls[Len(WriteTest) + 1].got = "false"
    /\ \E i \in AsyncSteps :
          /\ asyncCalls[i].got = "empty"
          /\ asyncCalls[i].runs = 1
          /\ asyncCalls[i].ret = "true"

\* C25: in the Write test the first status LoggerStatusCb receives is
\* "Write success!" and the second is "Flush success!", and when the test
\* checks its results exactly these two have been delivered, in this order.
C25_WriteThenFlush ==
    /\ Len(callbackStatus) >= 1 => callbackStatus[1] = WriteSuccess
    /\ Len(callbackStatus) >= 2 => callbackStatus[2] = FlushSuccess
    /\ TestOp \in {"CheckBegin", "CheckEnd"} =>
          callbackStatus = <<WriteSuccess, FlushSuccess>>

\* C26: callbackStatus is protected against concurrent access: the Logger
\* thread is never inside callbackStatus.push_back (in LoggerStatusCb) while
\* the IntegrationTest thread is reading callbackStatus in its checks.
C26_CallbackStatusProtected == ~(procPc = "push_back" /\ TestOp = "CheckEnd")

\* C27: LogData runs only on the Logger thread: every LogData::Write, every
\* LogData::Flush and every change of m_msgData, whether it comes from
\* Logger::Write, from the timer or from a delegate of a test, was executed
\* by the Logger thread.
C27_LogDataOnLoggerThread == \A e \in logDataLog : e.thread = "Logger"

\* All tests have run: LogData was written through Logger::Write, flushed by
\* the timer, and flushed, cleared and written through the tests' delegates.
C27_Witness ==
    /\ testPc = TestDone
    /\ {<<e.op, e.via>> : e \in logDataLog} =
          {<<"Write", "Logger::Write">>, <<"Flush", "timer">>, <<"Flush", "delegate">>,
           <<"clear", "delegate">>, <<"Write", "delegate">>}
    /\ m_msgData = <<"Flush Timer String">>

\* The receive path has processed an ACK for s: the peer sent one and Receive
\* has consumed it.
AckProcessed(s) ==
    /\ stat[s].acks >= 1
    /\ (peerFrame.id = ACK_REMOTE_ID /\ peerFrame.seq = s) => lastRecv.called

\* C28: once Receive has processed an ACK for sequence number s the monitor
\* holds no record for s, whatever the interleaving of Send (Add) with
\* Receive (Remove), and no timeout is raised for s from then on.
C28_AckClearsPending ==
    [][\A s \in DOMAIN stat :
          AckProcessed(s) =>
              /\ ~Monitor_Has(m_pending, s)
              /\ ~Monitor_Has(m_pending', s)
              /\ stat'[s].timeouts = stat[s].timeouts
      ]_vars

\* What holds of C28: on the transports whose Send calls Add before it
\* writes the frame, a processed ACK leaves no record and no later timeout.
C28_HoldsWhenAddFirst ==
    [][AddBeforeWrite(transport) =>
          \A s \in DOMAIN stat :
              AckProcessed(s) =>
                  /\ ~Monitor_Has(m_pending, s)
                  /\ ~Monitor_Has(m_pending', s)
                  /\ stat'[s].timeouts = stat[s].timeouts
      ]_vars

\* The frame w is an ACK for sequence number s: header with the reserved id,
\* the sequence number s and length 0, and no payload bytes.
IsAckFor(w, s) ==
    /\ Len(w) \in {HEADER_SIZE, HEADER_SIZE + 2}
    /\ LET h == ParseHeader(SubSeq(w, 1, HEADER_SIZE))
       IN  h.marker = MARKER /\ h.id = ACK_REMOTE_ID /\ h.seq = s /\ h.len = 0

\* C29: every Receive call that accepts a non-ACK frame (returns 0) sends
\* exactly one ACK through the send transport: Send is called once for an ACK
\* header, and the one frame it writes carries the reserved id, no payload
\* and the sequence number of the accepted frame.
C29_AcceptedFrameIsAcked ==
    [][(Len(rx') < Len(rx) /\ lastRecv'.err = 0 /\ lastRecv'.hdr.id # ACK_REMOTE_ID) =>
          /\ lastRecv'.ackSent
          /\ \/ tx' = tx
             \/ /\ Len(tx') = Len(tx) + 1
                /\ SubSeq(tx', 1, Len(tx)) = tx
                /\ IsAckFor(tx'[Len(tx')], lastRecv'.hdr.seq)
      ]_vars

\* What holds of C29: with the monitor set, or on the serial transport, the
\* accepted non-ACK frame is acknowledged as described.
C29_HoldsWithMonitor ==
    [][(Len(rx') < Len(rx) /\ lastRecv'.err = 0 /\ lastRecv'.hdr.id # ACK_REMOTE_ID
        /\ (hasMonitor \/ transport = "Serial")) =>
          /\ lastRecv'.ackSent
          /\ \/ tx' = tx
             \/ /\ Len(tx') = Len(tx) + 1
                /\ SubSeq(tx', 1, Len(tx)) = tx
                /\ IsAckFor(tx'[Len(tx')], lastRecv'.hdr.seq)
      ]_vars

\* The step is one Incoming call: the engine log grows by an "incoming" entry.
IncomingRuns == /\ Len(engLog') = Len(engLog) + 1
                /\ engLog'[Len(engLog')].kind = "incoming"

\* C30: the Incoming work item made for a frame hands its target the header
\* (id and sequence number) and the payload of that frame.  The item holds
\* the frame just received when it is queued, no queued item changes while
\* the receive thread goes on to later frames, and when the item runs the
\* call sees the values of the item at the head of the queue.
C30_WorkItemSeesItsFrame ==
    [][/\ Len(incomingQ') > Len(incomingQ) =>
             /\ incomingQ' = Append(incomingQ, [hdr |-> lastRecv'.hdr,
                                                payload |-> lastRecv'.payload])
             /\ lastRecv'.hdr.id = peerFrame.id
             /\ lastRecv'.hdr.seq = peerFrame.seq
             /\ lastRecv'.payload = peerFrame.payload
       /\ Len(incomingQ') = Len(incomingQ) => incomingQ' = incomingQ
       /\ Len(incomingQ') < Len(incomingQ) => IncomingRuns /\ incomingQ' = Tail(incomingQ)
       /\ IncomingRuns =>
             /\ incomingQ # <<>>
             /\ engLog'[Len(engLog')].id = Head(incomingQ).hdr.id
             /\ engLog'[Len(engLog')].seq = Head(incomingQ).hdr.seq
             /\ engLog'[Len(engLog')].payload = Head(incomingQ).payload
             /\ engLog'[Len(engLog')].payload = Pattern(engLog'[Len(engLog')].seq)]_vars

\* The second frame was received while the item of the first was still
\* queued, and the first item has run since: it saw frame 1.
C30_Witness ==
    /\ lastRecv.called /\ lastRecv.overtook = 1 /\ lastRecv.hdr.seq = 2
    /\ lastRecv.hdr.id = 99
    /\ Len(incomingQ) = 1 /\ incomingQ[1].hdr.seq = 2
    /\ \E i \in 1..Len(engLog) :
          /\ engLog[i].kind = "incoming"
          /\ engLog[i].id = 1 /\ engLog[i].seq = 1 /\ engLog[i].payload = Pattern(1)


\* C31: Thread::ExitThread called from another thread always returns, and
\* when it has returned the worker's loop has exited, also when the queue was
\* full when ExitThread tried to enqueue the exit message.
C31_ExitThreadReturns == (exitPc # "idle") ~> (exitPc = "done" /\ wpc = "done")

\* When the exit message was enqueued ExitThread does return, after the loop.
C31_ReturnsWhenEnqueued == (exitPc = "joining") ~> (exitPc = "done" /\ wpc = "done")


\* ------------------------------------------------------------------------
\* Properties of the STM32 receive path
\* ------------------------------------------------------------------------
\* Bytes accepted by Put and not yet returned by Get.
Unread == Len(accepted) - Len(got)

\* C32: with the interrupt handler in Put and the receive task in Get at the
\* same time and no lock, the bytes Get has returned are the bytes Put has
\* accepted, in the same order, none lost, repeated or read before it was
\* written: the returned bytes are the first of the accepted ones and the
\* cells from m_tail on hold exactly the accepted bytes not yet returned.
C32_RingBufferSpsc ==
    /\ Len(got) <= Len(accepted)
    /\ \A i \in 1..Len(got) : got[i] = accepted[i]
    /\ Unread = (m_head - m_tail + RingSize) % RingSize
    /\ \A i \in 1..Unread : m_buffer[(m_tail + i - 1) % RingSize] = accepted[Len(got) + i]
    /\ rdPc = "advance" => Unread > 0 /\ rdOut = accepted[Len(got) + 1]

\* Put and Get are both under way, after the indices have wrapped round.
C32_Witness ==
    /\ isrPc = "publish" /\ rdPc = "advance"
    /\ m_head = 0 /\ Len(accepted) = RingSize
    /\ got = <<1, 2>>


\* The step is the call of Put in OnRxCplt.
PutCalled == arrived' = arrived + 1

\* The step is the test of Get, which ends a call of Get on an empty buffer.
GetTested == rdPc = "get" /\ rdPc' # "get"

RingUnchanged == m_head' = m_head /\ m_tail' = m_tail /\ m_buffer' = m_buffer

\* C38: the buffer never holds more than Size-1 bytes and m_head and m_tail
\* stay within 0..Size-1.  Put returns false exactly on a full buffer and
\* then changes nothing, and OnRxCplt goes on as after an accepted byte: the
\* byte is dropped and nothing reports it.  Get returns false exactly on an
\* empty buffer and changes nothing.
C38_RingBufferBounds ==
    /\ [](/\ m_head \in 0..(RingSize - 1)
          /\ m_tail \in 0..(RingSize - 1)
          /\ Unread \in 0..(RingSize - 1))
    /\ [][/\ PutCalled =>
                /\ (dropped' # dropped) <=> (Unread = RingSize - 1)
                /\ dropped' # dropped =>
                      /\ dropped' = Append(dropped, m_rxByte')
                      /\ RingUnchanged
                      /\ accepted' = accepted
                      /\ isrPc' = "give"
                /\ dropped' = dropped => isrPc' = "store"
          /\ ~PutCalled => dropped' = dropped
          /\ GetTested =>
                /\ (rdPc' = "take") <=> (m_head = m_tail)
                /\ (rdPc' = "take") <=> (Unread = 0)
                /\ RingUnchanged
                /\ got' = got /\ rdOut' = rdOut]_vars

\* A byte arrived while the buffer held Size-1 bytes and was dropped, the
\* handler has returned, and Get has found the buffer empty afterwards.
C38_Witness ==
    /\ dropped = <<3>>
    /\ accepted = <<1, 2, 4>>
    /\ got = <<1, 2, 4>>
    /\ isrPc = "idle"
    /\ rdPc = "take"


\* C39: every byte the interrupt handler has put into the ring buffer is
\* eventually returned by ReadByteBlocked, with no further byte arriving,
\* under every interleaving of Put and give with Get and take.
C39_NoLostWakeup ==
    \A n \in 1..MaxBytes : (Len(accepted) >= n) ~> (Len(got) >= n)

\* The receive task found the buffer empty and is about to take the
\* semaphore; meanwhile two bytes were put and their two gives left one token.
C39_Witness ==
    /\ rdPc = "take"
    /\ isrPc = "idle"
    /\ Unread = 2
    /\ m_rxSemaphore = 1


\* ------------------------------------------------------------------------
\* Properties of the sync loop
\* ------------------------------------------------------------------------
\* Receive can do nothing more with the bytes that are there.
RecvQuiet == rx = <<>> \/ ~Transport_Receive(transport, rx, hasMonitor).returned

\* The peer's frame was accepted and handed on.
FrameDelivered ==
    \E i \in 1..Len(incomingQ) :
        /\ incomingQ[i].hdr.marker = MARKER
        /\ incomingQ[i].hdr.id = peerFrame.id
        /\ incomingQ[i].hdr.seq = peerFrame.seq
        /\ incomingQ[i].payload = peerFrame.payload

\* The noise that preceded the peer's frame.
GarbageSent ==
    SubSeq(peerFrame.wire, 1, Len(peerFrame.wire) - (HEADER_SIZE + Len(peerFrame.payload) + 2))

\* C33: after noise that holds no 0xAA 0x55 pair, also noise ending in 0xAA,
\* Receive finds the frame at its marker and accepts it; and every frame
\* Receive accepts has the marker 0xAA 0x55.
C33_ResyncFindsFrame ==
    /\ (peerSent = 1 /\ RecvQuiet) => FrameDelivered
    /\ \A i \in 1..Len(incomingQ) : incomingQ[i].hdr.marker = MARKER

\* What holds: a frame that follows noise without any 0xAA is accepted, and
\* nothing is accepted without the exact marker.
C33_HoldsWithoutAA ==
    /\ (peerSent = 1 /\ RecvQuiet /\ \A i \in 1..Len(GarbageSent) : GarbageSent[i] # 170)
          => FrameDelivered
    /\ \A i \in 1..Len(incomingQ) : incomingQ[i].hdr.marker = MARKER
    /\ (lastRecv.called /\ lastRecv.err = 0) => lastRecv.hdr.marker = MARKER


\* ------------------------------------------------------------------------
\* Properties of the semaphore-based condition variables
\* ------------------------------------------------------------------------
\* Waiter w is inside wait or wait_for, its predicate has been made true and
\* notify_one has been called for it.
NotifiedInWait(w) ==
    /\ wPc[w] \in {"pred", "take", "lock", "lockTimeout"}
    /\ pred[w]
    /\ nPc[w] = "done"

\* C34: a waiter inside wait or wait_for whose predicate was made true and
\* for which notify_one was called afterwards eventually returns (wait_for
\* with true), whatever the other waiters and notifiers do.
C34_NoLostWakeup ==
    \A w \in Waiters : NotifiedInWait(w) ~> (wPc[w] = "returned" /\ wRet[w] = "true")

\* What holds: a waiter in wait_for returns true, at the latest when its time
\* has elapsed.
C34_WaitForReturns ==
    \A w \in Waiters :
        (NotifiedInWait(w) /\ wMode[w] = "wait_for")
            ~> (wPc[w] = "returned" /\ wRet[w] = "true")


\* ------------------------------------------------------------------------
\* Properties of the hand-over from RecvThread to Incoming
\* ------------------------------------------------------------------------
\* The step is one pass of RecvThread in which Receive returned.
ReceiveReturned == rx' # rx /\ lastRecv'.called

\* C35: RecvThread hands a frame to Incoming exactly when Receive returned
\* success, the payload is not empty and the exit flag is clear.  A valid frame
\* without payload, an ACK or a message without arguments, is acknowledged by
\* the transport like any other but never handed to Incoming, and never
\* reaches an endpoint.
C35_ForwardOnlyNonEmpty ==
    /\ [][/\ ReceiveReturned =>
                /\ (incomingQ' # incomingQ) <=>
                      (lastRecv'.err = 0 /\ lastRecv'.payload # <<>> /\ ~m_recvThreadExit)
                /\ incomingQ' # incomingQ =>
                      incomingQ' = Append(incomingQ, [hdr |-> lastRecv'.hdr,
                                                      payload |-> lastRecv'.payload])
                /\ (lastRecv'.err = 0 /\ lastRecv'.hdr.id # ACK_REMOTE_ID) =>
                      lastRecv'.ackSent
          /\ Len(incomingQ') > Len(incomingQ) => ReceiveReturned]_vars
    /\ [](/\ \A i \in 1..Len(incomingQ) : incomingQ[i].payload # <<>>
          /\ \A i \in 1..Len(invoked) : invoked[i].payload # <<>>)

\* A valid frame for the registered id 1 that has no payload was accepted and
\* acknowledged, the exit flag is clear, and nothing was handed to Incoming.
C35_Witness ==
    /\ lastRecv.called /\ lastRecv.err = 0
    /\ lastRecv.hdr.id = 1 /\ lastRecv.hdr.len = 0 /\ lastRecv.payload = <<>>
    /\ lastRecv.ackSent
    /\ ~lastRecv.forwarded
    /\ m_receiveIdMap[1] = "A"
    /\ ~m_recvThreadExit
    /\ peerSent = 1 /\ rx = <<>>
    /\ incomingQ = <<>> /\ invoked = <<>>

\* ---- C36 ----
\* A receive loop of the first engine is running: its thread exists and has
\* not left RecvThread.
RecvRunning == recvPc \notin {"none", "exited", "dead"}

\* A receive thread is created and RecvThread posted to it.
LoopStarts ==
    \/ recvPc' = "loop" /\ ~RecvRunning
    \/ recv2Pc' = "loop" /\ recv2Pc # "loop"

OneWorker ==
    /\ ctTasks <= 1
    /\ \A i, j \in 1..Len(ctRan) : ctRan[i].worker = ctRan[j].worker

\* C37: CreateThread is idempotent: after any number of CreateThread calls
\* on the same thread object at most one worker consumes the object's queue,
\* and every enqueued item is executed by the same single worker.
C37_CreateThreadIdempotent == OneWorker

\* What holds: the ThreadX class and the Logger create one worker however
\* often CreateThread is called.
C37_HoldsWithGuard == ctKind # "FreeRTOS" => OneWorker

\* CreateThread was called more than once on a ThreadX or Logger object and
\* every dispatched item has been executed.
C37_GuardWitness ==
    /\ ctKind # "FreeRTOS"
    /\ ctCalls = MaxCreate
    /\ Len(ctRan) = MaxEnqueued

\* ---- C40 ----
\* A Send was made and returned a failure status: a frame was dispatched and
\* nothing was written.
SendReturnedFailure == dispatched' # dispatched /\ tx' = tx

\* C40: a transport Send that returns a failure status leaves the monitor's
\* pending table unchanged, so no pending record exists for a frame whose
\* Send failed.
C40_FailedSendAddsNothing ==
    [][SendReturnedFailure => m_pending' = m_pending]_vars

\* What holds: the netconn transport adds the record only after the datagram
\* was sent, so its failed Send leaves the pending table unchanged.
C40_HoldsForNetconn ==
    [][transport = "Netconn" /\ SendReturnedFailure => m_pending' = m_pending]_vars
====
